---- MODULE Spec2Model ----
(***************************************************************************)
(* A model of the anchor core of stellar-connect-sdk-go: the transfer      *)
(* manager with its finite state machine, session-token registry, hook     *)
(* registry and in-memory transfer store (specification Spec), the nonce   *)
(* store (SpecNonce), and the challenge verification of the auth issuer    *)
(* (SpecAuth, SpecSig).                                                    *)
(***************************************************************************)
EXTENDS Integers, Sequences, FiniteSets, TLC

(***************************************************************************)
(* Bounds of the model.                                                    *)
(***************************************************************************)
\* number of transfers that InitiateDeposit / InitiateWithdrawal may create
MaxTransfers == 1
\* number of goroutines calling into the transfer manager concurrently
NumCallers == 2

TransferIds == 1..MaxTransfers
Callers == 1..NumCallers
\* A session token is 32 random bytes. Token t is the one minted for transfer
\* t; BogusToken is a string that is never minted.
BogusToken == MaxTransfers + 1
Tokens == TransferIds \cup {BogusToken}
\* the id 0 stands for "no transfer" / "no caller" / "no token"
NoId == 0
\* a nil pointer of a TransferUpdate, an unset *time.Time
Nil == "<nil>"

VARIABLES
    transfers,      \* TransferStore.transfers: id -> Transfer record
    storeMu,        \* TransferStore.mu: the caller holding the write lock, or NoId
    tokenToID,      \* TransferManager.tokenToID: token -> transfer id
    tokenMu,        \* TransferManager.tokenMu: the caller holding it, or NoId
    transferLocks,  \* TransferManager.transferLocks: ids that have a mutex
    lockHeld,       \* the holder of each per-transfer mutex, or NoId
    hookLog,        \* per transfer, the events delivered by HookRegistry.Trigger
    nextId,         \* the next identifier GenerateNonce hands out
    call,           \* per caller: position in its operation and its locals
    walk,           \* history: per transfer, the status values it has held
    versions,       \* history: per transfer, the records committed to the store
    consumedOk,     \* history: per token, the number of successful Consume calls
    nonces,         \* NonceStore.nonces: nonce string -> entry
    now,            \* time.Now(), in minutes
    adds,           \* history: per nonce, the number of Add calls that returned nil
    consumes,       \* history: per nonce, the number of Consume calls that returned true
    verified,       \* the last VerifyChallenge call: payload, outcome, store effect
    sigIn,          \* the arguments of a verifyChallengeSignatures call
    sigOut,         \* what that call returned
    opPc,           \* per goroutine: its position in a mutation
    opId,           \* per goroutine: the transfer its mutation is on
    transferMu,     \* TransferManager.transferMu: its holder, or NoId
    mutexOf,        \* per transfer: the holder of its mutex, or NoId
    hookReaders,    \* HookRegistry.mu: the goroutines holding it for reading
    registrar,      \* HookRegistry.On: idle, waiting for mu, or holding it
    fsmFrom,        \* ValidateTransition: the from argument of the call
    fsmTo,          \* ValidateTransition: the to argument of the call
    fsmOut,         \* ValidateTransition: what the call returned, "" before
    ledger,         \* Horizon: the operations, in paging-token order
    obsCfg,         \* HorizonObserver: initialBackoff, maxBackoff, cursorSaver
    cursor,         \* HorizonObserver.cursor
    running,        \* HorizonObserver.running
    stopChan,       \* HorizonObserver.stopChan: open or closed
    ctxDone,        \* per caller of Start: its context is done
    start,          \* per caller of Start: its position and its locals
    handled,        \* the handler calls that have returned
    saved,          \* the calls of the cursor-saver, in order
    lastWait,       \* the length of the last backoff wait, 0 before
    wStatus,        \* the status of the withdrawal in the store
    tmCalls,        \* the calls of NotifyPaymentReceived, in order
    netIn,          \* cross-network verification: the networks and signatures
    netOut,         \* what that verification returned, "" before
    issued,         \* per nonce: the challenge CreateChallenge built with it
    tried,          \* the nonces a VerifyChallenge call has carried
    roundOut,       \* the last VerifyChallenge call on an issued challenge
    jwtCfg,         \* hmacJWT: issuer and expiry
    clock,          \* time.Now(), in ticks of a fraction of a second
    minted,         \* the claims handed to the last Issue call
    token,          \* the token that call returned, decoded
    jwtOut,         \* what the last Verify call returned
    inner,          \* per goroutine: the position of the mutation its hook handler called
    innerId,        \* per goroutine: the transfer that nested mutation is on
    began,          \* history: per caller of Start, where its first stream was opened
    opened,         \* history: per caller of Start, its call has opened a stream
    http,           \* examples/anchor: per goroutine, the /interactive request it serves
    shown           \* history: the tokens for which the form page has been displayed

tmVars == <<transfers, storeMu, tokenToID, tokenMu, transferLocks, lockHeld,
            hookLog, nextId, call, walk, versions, consumedOk>>
nonceVars == <<nonces, now, adds, consumes>>
authVars == <<verified>>
sigVars == <<sigIn, sigOut>>
lockVars == <<opPc, opId, transferMu, mutexOf, hookReaders, registrar>>
fsmVars == <<fsmFrom, fsmTo, fsmOut>>
netVars == <<netIn, netOut>>
roundVars == <<issued, tried, roundOut>>
jwtVars == <<jwtCfg, clock, minted, token, jwtOut>>
reVars == <<inner, innerId>>
histVars == <<began, opened>>
exVars == <<http, shown>>
obsVars == <<ledger, obsCfg, cursor, running, stopChan, ctxDone, start,
             handled, saved, lastWait, wStatus, tmCalls>>

(***************************************************************************)
(* Transfer FSM (anchor/fsm.go).                                           *)
(***************************************************************************)
Statuses == {"initiating", "interactive", "pending_user_transfer_start",
             "pending_external", "pending_stellar", "payment_required",
             "completed", "failed", "denied", "cancelled", "expired"}

\* a mutant: a table in which completed may still fail and the unknown
\* status "" may be initiated
legalTransitionsLoose ==
    [s \in Statuses \cup {""} |->
        CASE s = "initiating" ->
                {"interactive", "pending_user_transfer_start",
                 "pending_external", "failed", "denied"}
          [] s = "interactive" ->
                {"pending_user_transfer_start", "pending_external", "failed",
                 "expired"}
          [] s = "pending_user_transfer_start" ->
                {"pending_external", "pending_stellar", "failed", "cancelled"}
          [] s = "pending_external" ->
                {"pending_stellar", "failed", "cancelled"}
          [] s = "pending_stellar" -> {"completed", "failed"}
          [] s = "payment_required" -> {"pending_stellar", "failed"}
          [] s = "completed" -> {"failed"}
          [] s = "" -> {"initiating"}
          [] OTHER -> {}]

legalTransitions ==
    [s \in Statuses |->
        CASE s = "initiating" ->
                {"interactive", "pending_user_transfer_start",
                 "pending_external", "failed", "denied"}
          [] s = "interactive" ->
                {"pending_user_transfer_start", "pending_external",
                 "failed", "expired"}
          [] s = "pending_user_transfer_start" ->
                {"pending_external", "pending_stellar", "failed", "cancelled"}
          [] s = "pending_external" ->
                {"pending_stellar", "failed", "cancelled"}
          [] s = "pending_stellar" -> {"completed", "failed"}
          [] s = "payment_required" -> {"pending_stellar", "failed"}
          [] OTHER -> {}]

\* a mutant: every transition is accepted
ValidateTransitionAny(from, to) == "ok"

ValidateTransition(from, to) ==
    IF from \notin DOMAIN legalTransitions
    THEN "transition-invalid"
    ELSE IF to \notin legalTransitions[from]
         THEN "transition-invalid"
         ELSE "ok"

\* the values a caller can hand to ValidateTransition: the eleven statuses
\* and strings that are none of them
StatusInputs == Statuses \cup {"", "refunded"}

\* no call of ValidateTransition has been made
FsmIdle == fsmFrom = "" /\ fsmTo = "" /\ fsmOut = ""

\* the arguments of a call of ValidateTransition
FsmInit ==
    /\ fsmFrom \in StatusInputs
    /\ fsmTo \in StatusInputs
    /\ fsmOut = ""

\* the call returns
Validate ==
    /\ fsmOut = ""
    /\ fsmOut' = ValidateTransition(fsmFrom, fsmTo)
    /\ UNCHANGED <<fsmFrom, fsmTo>>

(***************************************************************************)
(* Transfer records and partial updates (stellarconnect.go).               *)
(***************************************************************************)
NoTransfer ==
    [kind |-> "none", mode |-> "none", status |-> "none", amount |-> "",
     externalRef |-> "", stellarTxHash |-> "", message |-> "",
     completedAt |-> Nil, interactiveToken |-> NoId]

NoUpdate ==
    [status |-> Nil, amount |-> Nil, externalRef |-> Nil,
     stellarTxHash |-> Nil, message |-> Nil, completedAt |-> Nil]

\* the order in which TransferStore.Update applies the fields of an update
UpdateOrder ==
    <<"status", "amount", "externalRef", "stellarTxHash", "message",
      "completedAt">>

\* the order in which GetStatus reads the fields of the record
GetStatusOrder ==
    <<"status", "amount", "completedAt", "stellarTxHash", "externalRef",
      "message">>

NoView ==
    [status |-> Nil, amount |-> Nil, completedAt |-> Nil,
     stellarTxHash |-> Nil, externalRef |-> Nil, message |-> Nil]

\* the fields of a record that GetStatus projects into its response
ViewOf(rec) ==
    [status |-> rec.status, amount |-> rec.amount,
     completedAt |-> rec.completedAt, stellarTxHash |-> rec.stellarTxHash,
     externalRef |-> rec.externalRef, message |-> rec.message]

\* the fields of an update that are set, in the order Update applies them
SetFields(update) ==
    SelectSeq(UpdateOrder, LAMBDA f : update[f] # Nil)

Exists(t) == t \in TransferIds /\ transfers[t].kind # "none"

(***************************************************************************)
(* Hook events (HookRegistry).                                             *)
(***************************************************************************)
HookDepositInitiated == "deposit:initiated"
HookDepositFundsReceived == "deposit:funds_received"
HookWithdrawalInitiated == "withdrawal:initiated"
HookWithdrawalStellarPaymentSent == "withdrawal:stellar_payment_sent"
HookTransferStatusChanged == "transfer:status_changed"

\* HookRegistry.Trigger with one recording handler registered per event
\* a mutant: every event is delivered twice
TriggerTwice(log, event) == Append(Append(log, event), event)

Trigger(log, event) == Append(log, event)

(***************************************************************************)
(* Callers.                                                                *)
(***************************************************************************)
Idle ==
    [pc |-> "idle", op |-> "none", id |-> NoId, tok |-> NoId,
     next |-> "none", hook |-> "none", after |-> "none",
     update |-> NoUpdate, pending |-> <<>>, rec |-> NoTransfer,
     view |-> NoView, found |-> FALSE, result |-> "none", ret |-> NoId,
     startLen |-> 0, late |-> FALSE, failed |-> FALSE]

\* the call has returned: what is left of it is its arguments and its result
Done(c, res) ==
    [Idle EXCEPT !.pc = "done", !.op = call[c].op, !.id = call[c].id,
                 !.tok = call[c].tok, !.view = call[c].view,
                 !.startLen = call[c].startLen, !.late = call[c].late,
                 !.failed = call[c].failed, !.result = res]

TMInit ==
    /\ transfers = [t \in TransferIds |-> NoTransfer]
    /\ storeMu = NoId
    /\ tokenToID = [k \in Tokens |-> NoId]
    /\ tokenMu = NoId
    /\ transferLocks = {}
    /\ lockHeld = [t \in TransferIds |-> NoId]
    /\ hookLog = [t \in TransferIds |-> <<>>]
    /\ nextId = 1
    /\ call = [c \in Callers |-> Idle]
    /\ walk = [t \in TransferIds |-> <<>>]
    /\ versions = [t \in TransferIds |-> {}]
    /\ consumedOk = [k \in Tokens |-> 0]

(***************************************************************************)
(* TransferManager.InitiateDeposit / InitiateWithdrawal                    *)
(* (anchor/transfer.go).                                                   *)
(***************************************************************************)
Accounts == {"", "GA"}
Kinds == {"deposit", "withdrawal"}
Modes == {"interactive", "api"}

\* the record built before the mode is looked at: status = initiating
NewTransfer(kind, mode) ==
    [NoTransfer EXCEPT !.kind = kind, !.mode = mode,
                       !.status = "initiating", !.amount = "10"]

\* the validation of the request, the new id and the new record; an API-mode
\* withdrawal is assigned payment_required directly
Initiate(c, kind, mode, account) ==
    /\ call[c].pc = "idle"
    /\ IF account = ""
       THEN /\ call' = [call EXCEPT ![c] =
                   [Idle EXCEPT !.pc = "done",
                                !.op = "Initiate",
                                !.result = "transfer-init-failed"]]
            /\ UNCHANGED <<nextId, walk>>
       ELSE /\ nextId <= MaxTransfers
            /\ nextId' = nextId + 1
            /\ LET direct == kind = "withdrawal" /\ mode = "api"
                   rec == NewTransfer(kind, mode)
               IN /\ call' = [call EXCEPT ![c] =
                       [Idle EXCEPT
                           !.op = "Initiate",
                           !.id = nextId,
                           !.rec = IF direct
                                   THEN [rec EXCEPT
                                            !.status = "payment_required"]
                                   ELSE rec,
                           !.pc = IF mode = "interactive"
                                  THEN "init_mint" ELSE "init_save"]]
                  /\ walk' = [walk EXCEPT ![nextId] =
                       IF direct
                       THEN <<"initiating", "payment_required">>
                       ELSE <<"initiating">>]
    /\ UNCHANGED <<transfers, storeMu, tokenToID, tokenMu, transferLocks,
                   lockHeld, hookLog, versions, consumedOk>>

\* a mutant: tokenMu excludes nobody
TokenMuFreeNoExclusion == TRUE

\* tokenMu.Lock() returns only when nobody holds the mutex
TokenMuFree == tokenMu = NoId

\* generateInteractiveURL: the token is bound to the transfer under tokenMu;
\* then the record is given the token and the status interactive
InitMint(c) ==
    /\ call[c].pc = "init_mint"
    /\ TokenMuFree
    /\ LET t == call[c].id
       IN /\ tokenToID' = [tokenToID EXCEPT ![t] = t]
          /\ call' = [call EXCEPT
                 ![c].rec = [@ EXCEPT !.interactiveToken = t,
                                      !.status = "interactive"],
                 ![c].tok = t,
                 ![c].pc = "init_save"]
          /\ walk' = [walk EXCEPT ![t] = Append(@, "interactive")]
    /\ UNCHANGED <<transfers, storeMu, tokenMu, transferLocks, lockHeld,
                   hookLog, nextId, versions, consumedOk>>

\* store.Save, then either the Initiated hook or, for an API-mode deposit,
\* transition(pending_external) first
InitSave(c) ==
    /\ call[c].pc = "init_save"
    /\ storeMu = NoId
    /\ LET t == call[c].id
           rec == call[c].rec
       IN IF Exists(t)
          THEN /\ call' = [call EXCEPT ![c] = Done(c, "store-error")]
               /\ UNCHANGED <<transfers, versions>>
          ELSE /\ transfers' = [transfers EXCEPT ![t] = rec]
               /\ versions' = [versions EXCEPT ![t] = @ \cup {rec}]
               /\ call' = [call EXCEPT ![c] =
                    IF rec.mode = "interactive" \/ rec.kind = "withdrawal"
                    THEN [@ EXCEPT !.pc = "init_hook"]
                    ELSE [@ EXCEPT !.pc = "lock",
                                   !.next = "pending_external",
                                   !.after = "init_hook",
                                   !.startLen = Len(walk[t])]]
    /\ UNCHANGED <<storeMu, tokenToID, tokenMu, transferLocks, lockHeld,
                   hookLog, nextId, walk, consumedOk>>

\* hooks.Trigger(HookDepositInitiated | HookWithdrawalInitiated) and return
InitHook(c) ==
    /\ call[c].pc = "init_hook"
    /\ LET t == call[c].id
           ev == IF call[c].rec.kind = "deposit"
                 THEN HookDepositInitiated ELSE HookWithdrawalInitiated
       IN /\ hookLog' = [hookLog EXCEPT ![t] = Trigger(@, ev)]
          /\ call' = [call EXCEPT ![c] =
                 [Done(c, "ok") EXCEPT !.ret = t]]
    /\ UNCHANGED <<transfers, storeMu, tokenToID, tokenMu, transferLocks,
                   lockHeld, nextId, walk, versions, consumedOk>>

(***************************************************************************)
(* The notification APIs, Deny, Cancel and CompleteInteractive: the        *)
(* arguments each hands to updateAndTransition or transition.              *)
(***************************************************************************)
ExternalRefs == {"R1"}
TxHashes == {"H1"}
NotifyAmounts == {"", "20"}
Reasons == {"", "why"}

\* the call is recorded with its update, its target status and its hook
Begin(c, op, t, update, next, hook) ==
    [Idle EXCEPT !.pc = "lock", !.op = op, !.id = t, !.update = update,
                 !.next = next, !.hook = hook, !.after = "done",
                 !.startLen = Len(walk[t])]

NotifyFundsReceived(c, t, ref, amount) ==
    /\ call[c].pc = "idle"
    /\ call' = [call EXCEPT ![c] =
         Begin(c, "NotifyFundsReceived", t,
               [NoUpdate EXCEPT !.externalRef = ref,
                                !.amount = IF amount # "" THEN amount ELSE Nil],
               "pending_stellar", HookDepositFundsReceived)]
    /\ UNCHANGED <<transfers, storeMu, tokenToID, tokenMu, transferLocks,
                   lockHeld, hookLog, nextId, walk, versions,
                   consumedOk>>

\* a mutant: the update carries no completion time
NotifyPaymentSentNoTime(c, t, hash) ==
    /\ call[c].pc = "idle"
    /\ call' = [call EXCEPT ![c] =
         Begin(c, "NotifyPaymentSent", t,
               [NoUpdate EXCEPT !.stellarTxHash = hash],
               "completed", HookTransferStatusChanged)]
    /\ UNCHANGED <<transfers, storeMu, tokenToID, tokenMu, transferLocks,
                   lockHeld, hookLog, nextId, walk, versions,
                   consumedOk>>

NotifyPaymentSent(c, t, hash) ==
    /\ call[c].pc = "idle"
    /\ call' = [call EXCEPT ![c] =
         Begin(c, "NotifyPaymentSent", t,
               [NoUpdate EXCEPT !.stellarTxHash = hash, !.completedAt = "now"],
               "completed", HookTransferStatusChanged)]
    /\ UNCHANGED <<transfers, storeMu, tokenToID, tokenMu, transferLocks,
                   lockHeld, hookLog, nextId, walk, versions,
                   consumedOk>>

NotifyPaymentReceived(c, t, hash) ==
    /\ call[c].pc = "idle"
    /\ call' = [call EXCEPT ![c] =
         Begin(c, "NotifyPaymentReceived", t,
               [NoUpdate EXCEPT !.stellarTxHash = hash],
               "pending_stellar", HookWithdrawalStellarPaymentSent)]
    /\ UNCHANGED <<transfers, storeMu, tokenToID, tokenMu, transferLocks,
                   lockHeld, hookLog, nextId, walk, versions,
                   consumedOk>>

NotifyDisbursementSent(c, t, ref) ==
    /\ call[c].pc = "idle"
    /\ call' = [call EXCEPT ![c] =
         Begin(c, "NotifyDisbursementSent", t,
               [NoUpdate EXCEPT !.externalRef = ref, !.completedAt = "now"],
               "completed", HookTransferStatusChanged)]
    /\ UNCHANGED <<transfers, storeMu, tokenToID, tokenMu, transferLocks,
                   lockHeld, hookLog, nextId, walk, versions,
                   consumedOk>>

\* transition(id, next, message): the message is set when it is not blank
\* and completed_at when the target is completed; only status-changed fires
TransitionCall(c, op, t, next, message) ==
    Begin(c, op, t,
          [NoUpdate EXCEPT
              !.message = IF message # "" THEN message ELSE Nil,
              !.completedAt = IF next = "completed" THEN "now" ELSE Nil],
          next, "none")

Deny(c, t, reason) ==
    /\ call[c].pc = "idle"
    /\ call' = [call EXCEPT ![c] = TransitionCall(c, "Deny", t, "denied", reason)]
    /\ UNCHANGED <<transfers, storeMu, tokenToID, tokenMu, transferLocks,
                   lockHeld, hookLog, nextId, walk, versions,
                   consumedOk>>

Cancel(c, t, reason) ==
    /\ call[c].pc = "idle"
    /\ call' = [call EXCEPT ![c] =
         TransitionCall(c, "Cancel", t, "cancelled", reason)]
    /\ UNCHANGED <<transfers, storeMu, tokenToID, tokenMu, transferLocks,
                   lockHeld, hookLog, nextId, walk, versions,
                   consumedOk>>

\* a mutant: the mode of the transfer is not looked at
CompleteInteractiveAnyMode(c, t) ==
    /\ call[c].pc = "idle"
    /\ storeMu = NoId
    /\ call' = [call EXCEPT ![c] =
         IF ~Exists(t)
         THEN [Idle EXCEPT !.pc = "done", !.op = "CompleteInteractive",
                           !.id = t, !.result = "store-error"]
         ELSE TransitionCall(c, "CompleteInteractive", t,
                  IF transfers[t].kind = "deposit"
                  THEN "pending_user_transfer_start"
                  ELSE "pending_external", "")]
    /\ UNCHANGED <<transfers, storeMu, tokenToID, tokenMu, transferLocks,
                   lockHeld, hookLog, nextId, walk, versions,
                   consumedOk>>

\* the load outside the per-transfer mutex, the mode check and the choice of
\* the target status by kind
CompleteInteractive(c, t) ==
    /\ call[c].pc = "idle"
    /\ storeMu = NoId
    /\ call' = [call EXCEPT ![c] =
         IF ~Exists(t)
         THEN [Idle EXCEPT !.pc = "done", !.op = "CompleteInteractive",
                           !.id = t, !.result = "store-error"]
         ELSE IF transfers[t].mode # "interactive"
         THEN [Idle EXCEPT !.pc = "done", !.op = "CompleteInteractive",
                           !.id = t, !.result = "transition-invalid"]
         ELSE TransitionCall(c, "CompleteInteractive", t,
                  IF transfers[t].kind = "deposit"
                  THEN "pending_user_transfer_start"
                  ELSE "pending_external", "")]
    /\ UNCHANGED <<transfers, storeMu, tokenToID, tokenMu, transferLocks,
                   lockHeld, hookLog, nextId, walk, versions,
                   consumedOk>>

(***************************************************************************)
(* updateAndTransition / transition, step by step.                         *)
(***************************************************************************)
\* a mutant: the per-transfer mutex excludes nobody
LockFreeNoExclusion(t) == TRUE

\* mu.Lock() returns only when nobody holds the mutex of the transfer
LockFree(t) == lockHeld[t] = NoId

\* lockForTransfer(id) and mu.Lock()
Lock(c) ==
    /\ call[c].pc = "lock"
    /\ LET t == call[c].id
       IN /\ LockFree(t)
          /\ transferLocks' = transferLocks \cup {t}
          /\ lockHeld' = [lockHeld EXCEPT ![t] = c]
    /\ call' = [call EXCEPT ![c].pc = "load"]
    /\ UNCHANGED <<transfers, storeMu, tokenToID, tokenMu, hookLog, nextId,
                   walk, versions, consumedOk>>

\* store.FindByID and ValidateTransition(transfer.Status, next)
Load(c) ==
    /\ call[c].pc = "load"
    /\ storeMu = NoId
    /\ LET t == call[c].id
           next == call[c].next
       IN call' = [call EXCEPT ![c] =
            IF ~Exists(t)
            THEN [@ EXCEPT !.pc = "unlock", !.result = "store-error"]
            ELSE IF ValidateTransition(transfers[t].status, next) # "ok"
            THEN [@ EXCEPT !.pc = "unlock", !.result = "transition-invalid"]
            ELSE LET upd == [call[c].update EXCEPT !.status = next]
                 IN [@ EXCEPT !.pc = "update", !.update = upd,
                              !.pending = SetFields(upd)]]
    /\ UNCHANGED <<transfers, storeMu, tokenToID, tokenMu, transferLocks,
                   lockHeld, hookLog, nextId, walk, versions,
                   consumedOk>>

\* TransferStore.Update assigns one set field of the update to the record;
\* after the last one it releases the store's lock
WriteField(c) ==
    LET t == call[c].id
        f == Head(call[c].pending)
        rest == Tail(call[c].pending)
        rec == [transfers[t] EXCEPT ![f] = call[c].update[f]]
    IN /\ transfers' = [transfers EXCEPT ![t] = rec]
       /\ IF f = "status"
          THEN /\ walk' = [walk EXCEPT ![t] = Append(@, rec.status)]
               ELSE UNCHANGED <<walk>>
       /\ IF rest = <<>>
          THEN /\ storeMu' = NoId
               /\ versions' = [versions EXCEPT ![t] = @ \cup {rec}]
               /\ call' = [call EXCEPT ![c].pending = rest, ![c].pc = "hooks"]
          ELSE /\ storeMu' = c
               /\ UNCHANGED versions
               /\ call' = [call EXCEPT ![c].pending = rest, ![c].pc = "write"]

\* store.Update: the store's lock is taken and the first field written
UpdateBegin(c) ==
    /\ call[c].pc = "update"
    /\ storeMu = NoId
    /\ WriteField(c)
    /\ UNCHANGED <<tokenToID, tokenMu, transferLocks, lockHeld, hookLog,
                   nextId, consumedOk>>

\* store.Update: the next field is written under the store's lock
UpdateWrite(c) ==
    /\ call[c].pc = "write"
    /\ WriteField(c)
    /\ UNCHANGED <<tokenToID, tokenMu, transferLocks, lockHeld, hookLog,
                   nextId, consumedOk>>

\* the events delivered after a successful update: updateAndTransition
\* triggers its hook and then status-changed, transition status-changed only
Delivered(hook) ==
    IF hook = "none"
    THEN <<HookTransferStatusChanged>>
    ELSE <<hook, HookTransferStatusChanged>>

RECURSIVE TriggerAll(_, _)
TriggerAll(log, events) ==
    IF events = <<>> THEN log
    ELSE TriggerAll(Trigger(log, Head(events)), Tail(events))

\* the reload for hook delivery and the hooks, under the per-transfer mutex
Hooks(c) ==
    /\ call[c].pc = "hooks"
    /\ storeMu = NoId
    /\ LET t == call[c].id
       IN hookLog' = [hookLog EXCEPT ![t] =
            IF Exists(t) THEN TriggerAll(@, Delivered(call[c].hook)) ELSE @]
    /\ call' = [call EXCEPT ![c].pc = "unlock", ![c].result = "ok"]
    /\ UNCHANGED <<transfers, storeMu, tokenToID, tokenMu, transferLocks,
                   lockHeld, nextId, walk, versions, consumedOk>>

\* the deferred mu.Unlock() and the return; InitiateDeposit goes on to its
\* Initiated hook when its transition succeeded
Unlock(c) ==
    /\ call[c].pc = "unlock"
    /\ lockHeld' = [lockHeld EXCEPT ![call[c].id] = NoId]
    /\ call' = [call EXCEPT ![c] =
         IF call[c].after = "init_hook" /\ call[c].result = "ok"
         THEN [@ EXCEPT !.pc = "init_hook", !.result = "none"]
         ELSE Done(c, call[c].result)]
    /\ UNCHANGED <<transfers, storeMu, tokenToID, tokenMu, transferLocks,
                   hookLog, nextId, walk, versions, consumedOk>>

\* the caller has its result and is free for its next call
Return(c) ==
    /\ call[c].pc = "done"
    /\ call' = [call EXCEPT ![c] = Idle]
    /\ UNCHANGED <<transfers, storeMu, tokenToID, tokenMu, transferLocks,
                   lockHeld, hookLog, nextId, walk, versions,
                   consumedOk>>

(***************************************************************************)
(* TransferManager.GetStatus: FindByID returns the stored record itself,   *)
(* and its fields are read after the store's read lock is released.        *)
(***************************************************************************)
GetStatus(c, t) ==
    /\ call[c].pc = "idle"
    /\ storeMu = NoId
    /\ call' = [call EXCEPT ![c] =
         IF ~Exists(t)
         THEN [Idle EXCEPT !.pc = "done", !.op = "GetStatus", !.id = t,
                           !.result = "store-error"]
         ELSE [Idle EXCEPT !.pc = "gs_read", !.op = "GetStatus", !.id = t,
                           !.pending = GetStatusOrder]]
    /\ UNCHANGED <<transfers, storeMu, tokenToID, tokenMu, transferLocks,
                   lockHeld, hookLog, nextId, walk, versions,
                   consumedOk>>

\* one field of the record is copied into the response
GetStatusRead(c) ==
    /\ call[c].pc = "gs_read"
    /\ LET t == call[c].id
           f == Head(call[c].pending)
           rest == Tail(call[c].pending)
           view == [call[c].view EXCEPT ![f] = transfers[t][f]]
       IN call' = [call EXCEPT ![c] =
            IF rest = <<>>
            THEN [Done(c, "ok") EXCEPT !.view = view]
            ELSE [@ EXCEPT !.view = view, !.pending = rest]]
    /\ UNCHANGED <<transfers, storeMu, tokenToID, tokenMu, transferLocks,
                   lockHeld, hookLog, nextId, walk, versions,
                   consumedOk>>

(***************************************************************************)
(* Session tokens: PeekInteractiveToken and ConsumeInteractiveToken.       *)
(***************************************************************************)
\* A caller can present the token of a transfer found in the store, or a
\* string that was never minted.
Presentable(k) ==
    k = BogusToken \/ (Exists(k) /\ transfers[k].interactiveToken = k)

\* a mutant: Peek takes the token as Consume does
AfterPeekTaken(map, k) == [map EXCEPT ![k] = NoId]

\* PeekInteractiveToken only reads the registry
AfterPeek(map, k) == map

\* the lookup under tokenMu
PeekInteractiveToken(c, k) ==
    /\ call[c].pc = "idle"
    /\ Presentable(k)
    /\ TokenMuFree
    /\ call' = [call EXCEPT ![c] =
         IF tokenToID[k] = NoId
         THEN [Idle EXCEPT !.pc = "done", !.op = "Peek", !.tok = k,
                           !.result = "interactive-token-invalid"]
         ELSE [Idle EXCEPT !.pc = "tok_find", !.op = "Peek", !.tok = k,
                           !.id = tokenToID[k], !.found = TRUE]]
    /\ tokenToID' = AfterPeek(tokenToID, k)
    /\ UNCHANGED <<transfers, storeMu, tokenMu, transferLocks,
                   lockHeld, hookLog, nextId, walk, versions,
                   consumedOk>>

\* tokenMu.Lock() and the lookup
ConsumeInteractiveToken(c, k) ==
    /\ call[c].pc = "idle"
    /\ Presentable(k)
    /\ TokenMuFree
    /\ tokenMu' = c
    /\ call' = [call EXCEPT ![c] =
         [Idle EXCEPT !.pc = "tok_delete", !.op = "Consume", !.tok = k,
                      !.id = tokenToID[k], !.found = (tokenToID[k] # NoId),
                      !.late = (consumedOk[k] > 0)]]
    /\ UNCHANGED <<transfers, storeMu, tokenToID, transferLocks, lockHeld,
                   hookLog, nextId, walk, versions, consumedOk>>

\* a mutant: Consume leaves the binding in the registry
DeleteTokenKeep(map, k) == map

\* delete(tm.tokenToID, token)
DeleteToken(map, k) == [map EXCEPT ![k] = NoId]

\* the delete when the token was found, and tokenMu.Unlock()
ConsumeDelete(c) ==
    /\ call[c].pc = "tok_delete"
    /\ tokenMu' = NoId
    /\ IF call[c].found
       THEN /\ tokenToID' = DeleteToken(tokenToID, call[c].tok)
            /\ call' = [call EXCEPT ![c].pc = "tok_find"]
       ELSE /\ UNCHANGED tokenToID
            /\ call' = [call EXCEPT ![c] =
                 Done(c, "interactive-token-invalid")]
    /\ UNCHANGED <<transfers, storeMu, transferLocks, lockHeld, hookLog,
                   nextId, walk, versions, consumedOk>>

\* store.FindByID(transferID) and the return of Peek or Consume
TokenFind(c) ==
    /\ call[c].pc = "tok_find"
    /\ storeMu = NoId
    /\ LET t == call[c].id
       IN IF ~Exists(t)
          THEN /\ call' = [call EXCEPT ![c] = Done(c, "store-error")]
               /\ UNCHANGED consumedOk
          ELSE /\ call' = [call EXCEPT ![c] =
                    [Done(c, "ok") EXCEPT !.ret = t]]
               /\ consumedOk' =
                    IF call[c].op = "Consume"
                    THEN [consumedOk EXCEPT ![call[c].tok] = @ + 1]
                    ELSE consumedOk
    /\ UNCHANGED <<transfers, storeMu, tokenToID, tokenMu, transferLocks,
                   lockHeld, hookLog, nextId, walk, versions>>

(***************************************************************************)
(* Store failures. TransferStore is an interface: any of its calls may     *)
(* return an error. Each action below is the branch a store call's caller  *)
(* takes on that error; a failed call leaves the store as it was.          *)
(***************************************************************************)
\* store.Save fails: InitiateDeposit / InitiateWithdrawal return store-error
SaveFails(c) ==
    /\ call[c].pc = "init_save"
    /\ call' = [call EXCEPT ![c] =
         [Done(c, "store-error") EXCEPT !.failed = TRUE]]
    /\ UNCHANGED <<transfers, storeMu, tokenToID, tokenMu, transferLocks,
                   lockHeld, hookLog, nextId, walk, versions, consumedOk>>

\* the FindByID at the head of updateAndTransition / transition fails
LoadFails(c) ==
    /\ call[c].pc = "load"
    /\ call' = [call EXCEPT ![c].pc = "unlock", ![c].result = "store-error",
                            ![c].failed = TRUE]
    /\ UNCHANGED <<transfers, storeMu, tokenToID, tokenMu, transferLocks,
                   lockHeld, hookLog, nextId, walk, versions, consumedOk>>

\* store.Update fails
UpdateFails(c) ==
    /\ call[c].pc = "update"
    /\ call' = [call EXCEPT ![c].pc = "unlock", ![c].result = "store-error",
                            ![c].failed = TRUE]
    /\ UNCHANGED <<transfers, storeMu, tokenToID, tokenMu, transferLocks,
                   lockHeld, hookLog, nextId, walk, versions, consumedOk>>

\* the FindByID after the update fails: no hook is triggered, nil is returned
ReloadFails(c) ==
    /\ call[c].pc = "hooks"
    /\ call' = [call EXCEPT ![c].pc = "unlock", ![c].result = "ok",
                            ![c].failed = TRUE]
    /\ UNCHANGED <<transfers, storeMu, tokenToID, tokenMu, transferLocks,
                   lockHeld, hookLog, nextId, walk, versions, consumedOk>>

\* the FindByID of CompleteInteractive, before the mutex is taken, fails
CompleteInteractiveFails(c, t) ==
    /\ call[c].pc = "idle"
    /\ call' = [call EXCEPT ![c] =
         [Idle EXCEPT !.pc = "done", !.op = "CompleteInteractive",
                      !.id = t, !.result = "store-error", !.failed = TRUE,
                      !.startLen = Len(walk[t])]]
    /\ UNCHANGED <<transfers, storeMu, tokenToID, tokenMu, transferLocks,
                   lockHeld, hookLog, nextId, walk, versions, consumedOk>>

(***************************************************************************)
(* The locks a mutation of the transfer manager takes, in the order it     *)
(* takes them: the registry mutex transferMu for the lookup of the         *)
(* per-transfer mutex, the per-transfer mutex, and the read side of the    *)
(* hook registry's RWMutex while the handlers run; HookRegistry.On takes   *)
(* the write side. A sync.RWMutex admits no new reader while a writer is   *)
(* waiting. Store calls and handlers may take any time.                    *)
(***************************************************************************)
\* the transfers the mutations are issued on; both are in the store
LockIds == {"T1", "T2"}

LocksInit ==
    /\ opPc = [c \in Callers |-> "idle"]
    /\ opId = [c \in Callers |-> "T1"]
    /\ transferMu = NoId
    /\ mutexOf = [t \in LockIds |-> NoId]
    /\ hookReaders = {}
    /\ registrar = "idle"

\* a mutation is called on transfer t: lockForTransfer takes transferMu
OpBegin(c, t) ==
    /\ opPc[c] = "idle"
    /\ transferMu = NoId
    /\ transferMu' = c
    /\ opPc' = [opPc EXCEPT ![c] = "registry"]
    /\ opId' = [opId EXCEPT ![c] = t]
    /\ UNCHANGED <<mutexOf, hookReaders, registrar>>

\* the lookup or insert in transferLocks and the deferred transferMu.Unlock()
OpRegistryDone(c) ==
    /\ opPc[c] = "registry"
    /\ transferMu' = NoId
    /\ opPc' = [opPc EXCEPT ![c] = "lock"]
    /\ UNCHANGED <<opId, mutexOf, hookReaders, registrar>>

\* mu.Lock() on the mutex of the transfer
OpLock(c) ==
    /\ opPc[c] = "lock"
    /\ mutexOf[opId[c]] = NoId
    /\ mutexOf' = [mutexOf EXCEPT ![opId[c]] = c]
    /\ opPc' = [opPc EXCEPT ![c] = "store"]
    /\ UNCHANGED <<opId, transferMu, hookReaders, registrar>>

\* FindByID, ValidateTransition, Update and the reload have returned
OpStoreDone(c) ==
    /\ opPc[c] = "store"
    /\ opPc' = [opPc EXCEPT ![c] = "trigger"]
    /\ UNCHANGED <<opId, transferMu, mutexOf, hookReaders, registrar>>

\* r.mu.RLock() returns only when no writer holds the lock or waits for it
ReadLockFree == registrar = "idle"

\* Trigger: r.mu.RLock(); the handlers start
OpTrigger(c) ==
    /\ opPc[c] = "trigger"
    /\ ReadLockFree
    /\ hookReaders' = hookReaders \cup {c}
    /\ opPc' = [opPc EXCEPT ![c] = "handler"]
    /\ UNCHANGED <<opId, transferMu, mutexOf, registrar>>

\* the handlers have returned: the deferred r.mu.RUnlock()
OpHandlersDone(c) ==
    /\ opPc[c] = "handler"
    /\ hookReaders' = hookReaders \ {c}
    /\ opPc' = [opPc EXCEPT ![c] = "unlock"]
    /\ UNCHANGED <<opId, transferMu, mutexOf, registrar>>

\* the deferred mu.Unlock() and the return
OpUnlock(c) ==
    /\ opPc[c] = "unlock"
    /\ mutexOf' = [mutexOf EXCEPT ![opId[c]] = NoId]
    /\ opPc' = [opPc EXCEPT ![c] = "idle"]
    /\ UNCHANGED <<opId, transferMu, hookReaders, registrar>>

\* HookRegistry.On is called: r.mu.Lock() is requested
OnBegin ==
    /\ registrar = "idle"
    /\ registrar' = "waiting"
    /\ UNCHANGED <<opPc, opId, transferMu, mutexOf, hookReaders>>

\* r.mu.Lock() returns when the last reader has left
OnLock ==
    /\ registrar = "waiting"
    /\ hookReaders = {}
    /\ registrar' = "holding"
    /\ UNCHANGED <<opPc, opId, transferMu, mutexOf, hookReaders>>

\* the handler is appended; the deferred r.mu.Unlock()
OnDone ==
    /\ registrar = "holding"
    /\ registrar' = "idle"
    /\ UNCHANGED <<opPc, opId, transferMu, mutexOf, hookReaders>>

(***************************************************************************)
(* HorizonObserver (observer) and AutoMatchPayments (observer/match.go).   *)
(* The ledger is Horizon's list of operations in paging-token order: the   *)
(* paging token of an operation is its index. A stream opened at a cursor  *)
(* hands the operations after the cursor to the callback of Start, one at  *)
(* a time and in ascending order; the cursor "now" stands for the last     *)
(* operation of the ledger at the time the stream is opened.               *)
(***************************************************************************)
MaxOps == 2
MaxDuration == 2

\* the cursor "now" of NewHorizonObserver, below every paging token
CursorNow == -1

DistributionAccount == "GDIST"
OtherAccount == "GOTHER"

\* the id of the one withdrawal in the store, used as the memo of its payment
WithdrawalId == "W1"

\* the operations Horizon can hold: payments to the distribution account with
\* and without the memo, a payment to another account, and a path payment
Ops ==
    { [type |-> "payment", to |-> DistributionAccount, memo |-> WithdrawalId],
      [type |-> "payment", to |-> DistributionAccount, memo |-> ""],
      [type |-> "payment", to |-> OtherAccount, memo |-> WithdrawalId],
      [type |-> "path_payment", to |-> DistributionAccount, memo |-> WithdrawalId] }

Durations == 1..MaxDuration

NoEvent == [cursor |-> CursorNow, hash |-> 0, to |-> "", memo |-> ""]

\* convertToPaymentEvent: the event of the operation with paging token pt, or
\* NoEvent for an operation that is skipped; Memo is assigned nowhere
convertToPaymentEvent(op, pt) ==
    IF op.type \in {"payment", "create_account", "account_merge"}
    THEN [cursor |-> pt, hash |-> pt, to |-> op.to, memo |-> ""]
    ELSE NoEvent

\* the handlers registered before Start, in the order of their registration:
\* a handler of the application without filters, then the handler of
\* AutoMatchPayments with the filter WithDestination(distributionAccount)
AppHandler == 1
AutoMatchHandler == 2
NumHandlers == 2

\* the filters of handler h pass the event
PassesFilters(h, evt) ==
    IF h = AutoMatchHandler THEN evt.to = DistributionAccount ELSE TRUE

\* the handler of AutoMatchPayments calls the transfer manager for the event
AutoMatchCalls(evt) == evt.to = DistributionAccount /\ evt.memo # ""

\* TransferManager.NotifyPaymentReceived(id, hash) on the store holding the
\* withdrawal in status st: its result
NotifyResult(id, st) ==
    IF id # WithdrawalId THEN "store-error"
    ELSE ValidateTransition(st, "pending_stellar")

\* err is the error of the last call that returned one to Start: of a
\* handler, of the cursor-saver or of StreamPayments
NoStart ==
    [pc |-> "idle", backoff |-> 0, pos |-> 0, evt |-> NoEvent, h |-> 0,
     err |-> FALSE, result |-> "none"]

\* no Start has been called; the withdrawal awaits its on-chain payment
ObsIdle ==
    /\ ledger = <<>>
    /\ obsCfg = [initialBackoff |-> 1, maxBackoff |-> 1, saver |-> FALSE]
    /\ cursor = CursorNow
    /\ running = FALSE
    /\ stopChan = "open"
    /\ ctxDone = [c \in Callers |-> FALSE]
    /\ start = [c \in Callers |-> NoStart]
    /\ handled = {}
    /\ saved = <<>>
    /\ lastWait = 0
    /\ wStatus = "payment_required"
    /\ tmCalls = <<>>

\* no Start call is on record
ObsHistIdle ==
    /\ began = [c \in Callers |-> 0]
    /\ opened = [c \in Callers |-> FALSE]

\* NewHorizonObserver with the options WithCursor, WithCursorSaver and
\* WithReconnectBackoff, and the two registrations
ObsInit ==
    /\ ledger = <<>>
    /\ \E i \in Durations, m \in Durations, s \in BOOLEAN :
           obsCfg = [initialBackoff |-> i, maxBackoff |-> m, saver |-> s]
    /\ cursor \in {CursorNow, 0}
    /\ running = FALSE
    /\ stopChan = "open"
    /\ ctxDone = [c \in Callers |-> FALSE]
    /\ start = [c \in Callers |-> NoStart]
    /\ handled = {}
    /\ saved = <<>>
    /\ lastWait = 0
    /\ wStatus = "payment_required"
    /\ tmCalls = <<>>

\* Start returns res; the deferred function clears running
ReturnFromStart(c, res) ==
    /\ start' = [start EXCEPT ![c] = [NoStart EXCEPT !.pc = "returned",
                                                      !.result = res]]
    /\ running' = FALSE

\* a mutant: Start does not look at running
StartCallUnguarded(c) ==
    /\ start[c].pc = "idle"
    /\ running' = TRUE
    /\ start' = [start EXCEPT ![c] =
          [NoStart EXCEPT !.pc = "top", !.backoff = obsCfg.initialBackoff]]
    /\ UNCHANGED <<ledger, obsCfg, cursor, stopChan, ctxDone, handled, saved,
                   lastWait, wStatus, tmCalls>>

\* Start is called: under mu, the error if the observer is running, otherwise
\* running is set and the backoff starts at initialBackoff
StartCall(c) ==
    /\ start[c].pc = "idle"
    /\ IF running
       THEN /\ start' = [start EXCEPT ![c] =
                  [NoStart EXCEPT !.pc = "returned", !.result = "stream-error"]]
            /\ UNCHANGED running
       ELSE /\ running' = TRUE
            /\ start' = [start EXCEPT ![c] =
                  [NoStart EXCEPT !.pc = "top",
                                  !.backoff = obsCfg.initialBackoff]]
    /\ UNCHANGED <<ledger, obsCfg, cursor, stopChan, ctxDone, handled, saved,
                   lastWait, wStatus, tmCalls>>

\* the select at the top of the loop: a closed stopChan or a done context
\* ends Start, either of them when both are ready; otherwise go on
LoopTop(c) ==
    /\ start[c].pc = "top"
    /\ \/ stopChan = "closed" /\ ReturnFromStart(c, "nil")
       \/ ctxDone[c] /\ ReturnFromStart(c, "ctx-error")
       \/ /\ stopChan = "open" /\ ~ctxDone[c]
          /\ start' = [start EXCEPT ![c].pc = "connect"]
          /\ UNCHANGED running
    /\ UNCHANGED <<ledger, obsCfg, cursor, stopChan, ctxDone, handled, saved,
                   lastWait, wStatus, tmCalls>>

\* a mutant: every stream is opened at the beginning of the ledger
ConnectFromStart(c) ==
    /\ start[c].pc = "connect"
    /\ start' = [start EXCEPT ![c].pc = "streaming", ![c].pos = 0]
    /\ UNCHANGED <<ledger, obsCfg, cursor, running, stopChan, ctxDone,
                   handled, saved, lastWait, wStatus, tmCalls>>

\* the cursor is read under mu and StreamPayments is called with it, in
\* ascending order: the stream stands after the operation of the cursor
Connect(c) ==
    /\ start[c].pc = "connect"
    /\ start' = [start EXCEPT
          ![c].pc = "streaming",
          ![c].pos = IF cursor = CursorNow THEN Len(ledger) ELSE cursor]
    /\ UNCHANGED <<ledger, obsCfg, cursor, running, stopChan, ctxDone,
                   handled, saved, lastWait, wStatus, tmCalls>>

\* a mutant: the cursor is advanced when the operation arrives
DeliverCursorFirst(c) ==
    /\ start[c].pc = "streaming"
    /\ start[c].pos < Len(ledger)
    /\ LET pt == start[c].pos + 1
           evt == convertToPaymentEvent(ledger[pt], pt)
       IN /\ start' = [start EXCEPT
                ![c].pos = pt,
                ![c].backoff = obsCfg.initialBackoff,
                ![c].evt = evt,
                ![c].err = FALSE,
                ![c].h = IF evt = NoEvent THEN 0 ELSE 1,
                ![c].pc = IF evt = NoEvent THEN "streaming" ELSE "handlers"]
          /\ cursor' = IF evt = NoEvent THEN cursor ELSE pt
    /\ UNCHANGED <<ledger, obsCfg, running, stopChan, ctxDone, handled,
                   saved, lastWait, wStatus, tmCalls>>

\* the stream hands the next operation to the callback: the backoff is
\* reset, the operation is converted, and an operation that is no payment is
\* skipped
Deliver(c) ==
    /\ start[c].pc = "streaming"
    /\ start[c].pos < Len(ledger)
    /\ LET pt == start[c].pos + 1
           evt == convertToPaymentEvent(ledger[pt], pt)
       IN start' = [start EXCEPT
             ![c].pos = pt,
             ![c].backoff = obsCfg.initialBackoff,
             ![c].evt = evt,
             ![c].err = FALSE,
             ![c].h = IF evt = NoEvent THEN 0 ELSE 1,
             ![c].pc = IF evt = NoEvent THEN "streaming" ELSE "handlers"]
    /\ UNCHANGED <<ledger, obsCfg, cursor, running, stopChan, ctxDone,
                   handled, saved, lastWait, wStatus, tmCalls>>

\* processEvent: the next entry is skipped when a filter rejects the event
\* and called otherwise; after the last entry the callback goes on
Dispatch(c) ==
    /\ start[c].pc = "handlers"
    /\ start' = [start EXCEPT ![c] =
          IF start[c].h > NumHandlers
          THEN [@ EXCEPT !.pc = "cursor"]
          ELSE IF ~PassesFilters(start[c].h, start[c].evt)
          THEN [@ EXCEPT !.h = @ + 1]
          ELSE [@ EXCEPT !.pc = "in_handler"]]
    /\ UNCHANGED <<ledger, obsCfg, cursor, running, stopChan, ctxDone,
                   handled, saved, lastWait, wStatus, tmCalls>>

\* what the handler of AutoMatchPayments does to the transfer manager
AutoMatch(evt) ==
    IF AutoMatchCalls(evt)
    THEN LET res == NotifyResult(evt.memo, wStatus)
         IN /\ tmCalls' = Append(tmCalls, [id |-> evt.memo, hash |-> evt.hash,
                                           result |-> res])
            /\ wStatus' = IF res = "ok" THEN "pending_stellar" ELSE wStatus
    ELSE UNCHANGED <<tmCalls, wStatus>>

\* a mutant: an error of a handler ends the stream
HandlerReturnsAborting(c, err) ==
    /\ start[c].pc = "in_handler"
    /\ IF start[c].h = AutoMatchHandler
       THEN ~err /\ AutoMatch(start[c].evt)
       ELSE UNCHANGED <<tmCalls, wStatus>>
    /\ handled' = handled \cup {<<start[c].h, start[c].evt.cursor>>}
    /\ start' = [start EXCEPT ![c] =
          IF err THEN [@ EXCEPT !.pc = "ended", !.err = TRUE]
          ELSE [@ EXCEPT !.h = @ + 1, !.pc = "handlers", !.err = FALSE]]
    /\ UNCHANGED <<ledger, obsCfg, cursor, running, stopChan, ctxDone, saved,
                   lastWait>>

\* the handler returns: the handler of the application with or without an
\* error, the handler of AutoMatchPayments always without; an error is
\* logged and the next entry follows
HandlerReturns(c, err) ==
    /\ start[c].pc = "in_handler"
    /\ IF start[c].h = AutoMatchHandler
       THEN ~err /\ AutoMatch(start[c].evt)
       ELSE UNCHANGED <<tmCalls, wStatus>>
    /\ handled' = handled \cup {<<start[c].h, start[c].evt.cursor>>}
    /\ start' = [start EXCEPT ![c].h = @ + 1, ![c].pc = "handlers",
                              ![c].err = err]
    /\ UNCHANGED <<ledger, obsCfg, cursor, running, stopChan, ctxDone, saved,
                   lastWait>>

\* h.cursor = evt.Cursor under mu; without a cursor-saver the callback returns
UpdateCursor(c) ==
    /\ start[c].pc = "cursor"
    /\ cursor' = start[c].evt.cursor
    /\ start' = [start EXCEPT
          ![c].pc = IF obsCfg.saver THEN "save" ELSE "streaming",
          ![c].err = FALSE]
    /\ UNCHANGED <<ledger, obsCfg, running, stopChan, ctxDone, handled,
                   saved, lastWait, wStatus, tmCalls>>

\* the cursor-saver is called with the paging token of the event; its error
\* is logged; the callback returns
SaveCursor(c, err) ==
    /\ start[c].pc = "save"
    /\ saved' = Append(saved, start[c].evt.cursor)
    /\ start' = [start EXCEPT ![c].pc = "streaming", ![c].err = err]
    /\ UNCHANGED <<ledger, obsCfg, cursor, running, stopChan, ctxDone,
                   handled, lastWait, wStatus, tmCalls>>

\* StreamPayments returns an error: the connection was lost
StreamFails(c) ==
    /\ start[c].pc = "streaming"
    /\ start' = [start EXCEPT ![c].pc = "ended", ![c].err = TRUE]
    /\ UNCHANGED <<ledger, obsCfg, cursor, running, stopChan, ctxDone,
                   handled, saved, lastWait, wStatus, tmCalls>>

\* StreamPayments returns because its context is done, with or without an
\* error
StreamCancelled(c, err) ==
    /\ start[c].pc = "streaming"
    /\ ctxDone[c]
    /\ start' = [start EXCEPT ![c].pc = "ended", ![c].err = err]
    /\ UNCHANGED <<ledger, obsCfg, cursor, running, stopChan, ctxDone,
                   handled, saved, lastWait, wStatus, tmCalls>>

\* after the stream: nil without an error; otherwise the select on stopChan
\* and the context, and the backoff wait when neither is ready
AfterStream(c) ==
    /\ start[c].pc = "ended"
    /\ \/ ~start[c].err /\ ReturnFromStart(c, "nil")
       \/ start[c].err /\ stopChan = "closed" /\ ReturnFromStart(c, "nil")
       \/ start[c].err /\ ctxDone[c] /\ ReturnFromStart(c, "ctx-error")
       \/ /\ start[c].err /\ stopChan = "open" /\ ~ctxDone[c]
          /\ start' = [start EXCEPT ![c].pc = "backoff", ![c].err = FALSE]
          /\ UNCHANGED running
    /\ UNCHANGED <<ledger, obsCfg, cursor, stopChan, ctxDone, handled, saved,
                   lastWait, wStatus, tmCalls>>

\* time.After(backoff) fires: the wait has lasted backoff; the backoff is
\* doubled and capped at maxBackoff
TimerFires(c) ==
    /\ start[c].pc = "backoff"
    /\ lastWait' = start[c].backoff
    /\ start' = [start EXCEPT
          ![c].pc = "top",
          ![c].backoff = IF 2 * start[c].backoff > obsCfg.maxBackoff
                         THEN obsCfg.maxBackoff ELSE 2 * start[c].backoff]
    /\ UNCHANGED <<ledger, obsCfg, cursor, running, stopChan, ctxDone,
                   handled, saved, wStatus, tmCalls>>

\* the wait is ended by stopChan or by the context
WaitInterrupted(c) ==
    /\ start[c].pc = "backoff"
    /\ \/ stopChan = "closed" /\ ReturnFromStart(c, "nil")
       \/ ctxDone[c] /\ ReturnFromStart(c, "ctx-error")
    /\ UNCHANGED <<ledger, obsCfg, cursor, stopChan, ctxDone, handled, saved,
                   lastWait, wStatus, tmCalls>>

\* Stop: stopChan is closed, once, and Stop returns
Stop ==
    /\ stopChan = "open"
    /\ stopChan' = "closed"
    /\ UNCHANGED <<ledger, obsCfg, cursor, running, ctxDone, start, handled,
                   saved, lastWait, wStatus, tmCalls>>

\* the context handed to Start by caller c is cancelled
CancelContext(c) ==
    /\ ~ctxDone[c]
    /\ ctxDone' = [ctxDone EXCEPT ![c] = TRUE]
    /\ UNCHANGED <<ledger, obsCfg, cursor, running, stopChan, start, handled,
                   saved, lastWait, wStatus, tmCalls>>

\* an operation is added to the ledger
AppendOp(op) ==
    /\ Len(ledger) < MaxOps
    /\ ledger' = Append(ledger, op)
    /\ UNCHANGED <<obsCfg, cursor, running, stopChan, ctxDone, start, handled,
                   saved, lastWait, wStatus, tmCalls>>

(***************************************************************************)
(* In-memory NonceStore (store/memory). Add and Consume each run under the *)
(* store's mutex from entry to return, so each is one atomic step.         *)
(***************************************************************************)
\* the clock runs from 0 to MaxTime minutes
MaxTime == 6
\* accepted Add calls per nonce string
MaxAdds == 2

NonceStrings == {"n1", "n2"}
Times == 0..MaxTime

\* absence of a key in the nonces map
NoNonce == [present |-> FALSE, expiresAt |-> 0, consumed |-> FALSE]

NonceInit ==
    /\ nonces = [n \in NonceStrings |-> NoNonce]
    /\ now = 0
    /\ adds = [n \in NonceStrings |-> 0]
    /\ consumes = [n \in NonceStrings |-> 0]

\* time.Now().After(entry.ExpiresAt)
Expired(entry, t) == t > entry.expiresAt

\* Add: an existing key is an error, otherwise the entry is stored unconsumed
AddNonce(map, n, expiresAt) ==
    IF map[n].present
    THEN [ok |-> FALSE, store |-> map]
    ELSE [ok |-> TRUE,
          store |-> [map EXCEPT ![n] = [present |-> TRUE,
                                        expiresAt |-> expiresAt,
                                        consumed |-> FALSE]]]

\* the lazy cleanup at the head of Consume: every expired entry is deleted
Sweep(map, t) ==
    [n \in DOMAIN map |->
        IF map[n].present /\ Expired(map[n], t) THEN NoNonce ELSE map[n]]

MarkConsumedNot(entry) == entry

\* entry.Consumed = true
MarkConsumed(entry) == [entry EXCEPT !.consumed = TRUE]

\* Consume: sweep, then unknown / already consumed / expired are false
ConsumeNonce(map, n, t) ==
    LET swept == Sweep(map, t)
    IN  IF n \notin DOMAIN swept THEN [ok |-> FALSE, store |-> swept]
        ELSE IF ~swept[n].present THEN [ok |-> FALSE, store |-> swept]
        ELSE IF swept[n].consumed THEN [ok |-> FALSE, store |-> swept]
        ELSE IF Expired(swept[n], t)
             THEN [ok |-> FALSE, store |-> [swept EXCEPT ![n] = NoNonce]]
        ELSE [ok |-> TRUE,
              store |-> [swept EXCEPT ![n] = MarkConsumed(swept[n])]]

Add(n, expiresAt) ==
    /\ adds[n] < MaxAdds
    /\ LET r == AddNonce(nonces, n, expiresAt)
       IN  /\ nonces' = r.store
           /\ adds' = IF r.ok THEN [adds EXCEPT ![n] = @ + 1] ELSE adds
    /\ UNCHANGED <<now, consumes>>

Consume(n) ==
    /\ consumes[n] <= MaxAdds
    /\ LET r == ConsumeNonce(nonces, n, now)
       IN  /\ nonces' = r.store
           /\ consumes' = IF r.ok THEN [consumes EXCEPT ![n] = @ + 1]
                          ELSE consumes
    /\ UNCHANGED <<now, adds>>

\* the wall clock advances
Tick ==
    /\ now < MaxTime
    /\ now' = now + 1
    /\ UNCHANGED <<nonces, adds, consumes>>

(***************************************************************************)
(* verifyChallengeSignatures (anchor/auth.go).                             *)
(***************************************************************************)
\* signatures on a challenge envelope
MaxSigs == 3

ServerKey == "GSERVER"
ClientKey == "GA"
CoSignerKey == "GB"
StrangerKey == "GX"
Keys == {ServerKey, ClientKey, CoSignerKey, StrangerKey}

\* A decorated signature: the 4-byte hint its sender wrote next to it and the
\* key whose secret produced the signature bytes over the transaction hash.
Signatures == [hint : Keys, by : Keys]

\* kp.Verify(hash, sig.Signature) == nil
Verify(key, sig) == sig.by = key

SignatureLists == UNION {[1..n -> Signatures] : n \in 0..MaxSigs}

Weights == {0, 5}
Thresholds == {0, 5, 10}
\* FetchSigners results: the account's signers with their weights. The
\* master key is always listed; the co-signer and the server key may be.
SignerSets ==
    {s \in UNION {[d -> Weights] : d \in SUBSET {ClientKey, CoSignerKey, ServerKey}} :
        /\ ClientKey \in DOMAIN s
        /\ \A k \in DOMAIN s \ {ClientKey} : s[k] = 5}

\* fetcher == nil; FetchSigners returned an error because the account does
\* not exist, or because the request failed otherwise; FetchSigners succeeded
FetcherModes == {"none", "notfound", "failed", "found"}

NoSigIn == [fetcher |-> "none", signers |-> <<>>, medium |-> 0, sigs |-> <<>>]

\* clientSigners for clientAccount: the fetched signers, or the master key
\* with weight 1
clientSignersOf(account, in) ==
    IF in.fetcher = "found" THEN in.signers ELSE [k \in {account} |-> 1]

\* the subject of the challenge is ClientKey wherever no other is named
clientSigners(in) == clientSignersOf(ClientKey, in)

medThreshold(in) == IF in.fetcher = "found" THEN in.medium ELSE 0

\* the checks after the loop over the signatures
AfterLoop(serverSigned, totalWeight, threshold) ==
    IF ~serverSigned THEN "challenge transaction not signed by server"
    ELSE IF totalWeight < threshold
         THEN "challenge transaction not signed by client"
    ELSE IF threshold = 0 /\ totalWeight = 0
         THEN "challenge transaction not signed by client"
    ELSE "ok"

RECURSIVE SigLoopNoHints(_, _, _, _, _, _, _)
\* the loop without the seenHints test
SigLoopNoHints(sigs, i, seenHints, serverSigned, totalWeight, signers, threshold) ==
    IF i > Len(sigs) THEN AfterLoop(serverSigned, totalWeight, threshold)
    ELSE IF Verify(ServerKey, sigs[i])
         THEN SigLoopNoHints(sigs, i + 1, seenHints, TRUE,
                             totalWeight, signers, threshold)
    ELSE IF \E k \in DOMAIN signers : Verify(k, sigs[i])
         THEN SigLoopNoHints(sigs, i + 1, seenHints, serverSigned,
                             totalWeight + signers[CHOOSE k \in DOMAIN signers :
                                                       Verify(k, sigs[i])],
                             signers, threshold)
    ELSE "transaction has unrecognized signatures"

RECURSIVE SigLoop(_, _, _, _, _, _, _)
\* the loop over tx.Signatures(), from index i on
SigLoop(sigs, i, seenHints, serverSigned, totalWeight, signers, threshold) ==
    IF i > Len(sigs) THEN AfterLoop(serverSigned, totalWeight, threshold)
    ELSE IF sigs[i].hint \in seenHints THEN "duplicate signature detected"
    ELSE IF Verify(ServerKey, sigs[i])
         THEN SigLoop(sigs, i + 1, seenHints \cup {sigs[i].hint}, TRUE,
                      totalWeight, signers, threshold)
    ELSE IF \E k \in DOMAIN signers : Verify(k, sigs[i])
         THEN SigLoop(sigs, i + 1, seenHints \cup {sigs[i].hint},
                      serverSigned,
                      totalWeight + signers[CHOOSE k \in DOMAIN signers :
                                                Verify(k, sigs[i])],
                      signers, threshold)
    ELSE "transaction has unrecognized signatures"

verifyChallengeSignaturesOf(account, in) ==
    IF Len(in.sigs) = 0 THEN "challenge transaction has no signatures"
    ELSE SigLoop(in.sigs, 1, {}, FALSE, 0, clientSignersOf(account, in),
                 medThreshold(in))

verifyChallengeSignatures(in) == verifyChallengeSignaturesOf(ClientKey, in)

\* signers and medium are read only when the fetcher found the account
SigInit ==
    /\ \/ \E s \in SignerSets, m \in Thresholds, l \in SignatureLists :
              sigIn = [fetcher |-> "found", signers |-> s, medium |-> m,
                       sigs |-> l]
       \/ \E f \in FetcherModes \ {"found"}, l \in SignatureLists :
              sigIn = [fetcher |-> f, signers |-> <<>>, medium |-> 0,
                       sigs |-> l]
    /\ sigOut = ""

VerifySignatures ==
    /\ sigOut = ""
    /\ sigOut' = verifyChallengeSignatures(sigIn)
    /\ UNCHANGED sigIn

(***************************************************************************)
(* A challenge built by CreateChallenge on an issuer of one network and    *)
(* handed to verifyChallengeSignatures on an issuer of another. A          *)
(* signature is made over tx.Hash(networkPassphrase), which covers the     *)
(* network, and verifies only against the hash it was made over.           *)
(***************************************************************************)
Networks == {"Test SDF Network ; September 2015",
             "Public Global Stellar Network ; September 2015"}

\* a mutant: the hash does not cover the network
txHashNoNetwork(net) == <<"challenge", "">>

\* tx.Hash(networkPassphrase) of the challenge transaction
txHash(net) == <<"challenge", net>>

\* the signatures a client can add to the envelope: it has the secrets of
\* all keys but the server's and signs for the network it chooses
ClientSignatures == [hint : Keys, by : Keys \ {ServerKey}, net : Networks]

ClientSignatureLists ==
    UNION {[1..n -> ClientSignatures] : n \in 0..(MaxSigs - 1)}

\* signer.SignTransaction(xdr, a.networkPassphrase) at the end of
\* CreateChallenge: the server's signature for the network of the issuer
ServerSignature(net) == [hint |-> ServerKey, by |-> ServerKey, net |-> net]

\* what kp.Verify(hash, sig.Signature) makes of a signature when hash is the
\* hash for network net: the signature of its key if it was made over that
\* hash, and the signature of no key otherwise
SeenOn(sig, net) ==
    [hint |-> sig.hint,
     by |-> IF txHash(sig.net) = txHash(net) THEN sig.by ELSE "nobody"]

NoNetIn ==
    [created |-> "", issuer |-> "", fetcher |-> "none", signers |-> <<>>,
     medium |-> 0, sigs |-> <<>>]

NetIdle == netIn = NoNetIn /\ netOut = ""

\* the network of the issuer that created the challenge, the signatures the
\* client added, and the issuer the challenge is handed to
NetInit ==
    /\ \E a \in Networks, b \in Networks, l \in ClientSignatureLists :
          \/ \E sg \in SignerSets, m \in Thresholds :
                 netIn = [created |-> a, issuer |-> b, fetcher |-> "found",
                          signers |-> sg, medium |-> m,
                          sigs |-> <<ServerSignature(a)>> \o l]
          \/ \E f \in FetcherModes \ {"found"} :
                 netIn = [created |-> a, issuer |-> b, fetcher |-> f,
                          signers |-> <<>>, medium |-> 0,
                          sigs |-> <<ServerSignature(a)>> \o l]
    /\ netOut = ""

\* verifyChallengeSignatures with the networkPassphrase of the verifying
\* issuer
VerifyOnNetwork ==
    /\ netOut = ""
    /\ netOut' = verifyChallengeSignatures(
                     [fetcher |-> netIn.fetcher, signers |-> netIn.signers,
                      medium |-> netIn.medium,
                      sigs |-> [i \in 1..Len(netIn.sigs) |->
                                   SeenOn(netIn.sigs[i], netIn.issuer)]])
    /\ UNCHANGED netIn

(***************************************************************************)
(* AuthIssuer.CreateChallenge / VerifyChallenge (anchor/auth.go), over the *)
(* in-memory nonce store, for an issuer built without an AccountFetcher.   *)
(***************************************************************************)
\* challengeTimeout, in minutes
challengeTimeout == 5
\* ways in which one payload departs from a challenge the issuer built
MaxDefects == 1

Domain == "anchor.example"

Defects == {"unparsable", "feeBump", "oneOp", "op1Type", "op1NilValue",
            "op1EmptyValue", "op1Name", "txSource", "op1NoSource",
            "unsigned", "op2Type", "op2Name", "op2Value", "issuerDown"}

DefectSets == {d \in SUBSET Defects : Cardinality(d) <= MaxDefects}

\* The decoded payload handed to VerifyChallenge: a challenge carrying nonce
\* n as CreateChallenge builds it and the client signs it, except for the
\* defects d. issuerUp tells whether jwtIssuer.Issue succeeds.
Payload(d, n) ==
    [parses    |-> "unparsable" \notin d,
     feeBump   |-> "feeBump" \in d,
     numOps    |-> IF "oneOp" \in d THEN 1 ELSE 2,
     op1Type   |-> IF "op1Type" \in d THEN "payment" ELSE "manage_data",
     op1Value  |-> IF "op1NilValue" \in d THEN Nil
                   ELSE IF "op1EmptyValue" \in d THEN "" ELSE n,
     op1Name   |-> IF "op1Name" \in d THEN "other auth" ELSE Domain \o " auth",
     txSource  |-> IF "txSource" \in d THEN StrangerKey ELSE ServerKey,
     op1Source |-> IF "op1NoSource" \in d THEN "" ELSE ClientKey,
     sigs      |-> IF "unsigned" \in d
                   THEN <<[hint |-> ServerKey, by |-> ServerKey]>>
                   ELSE <<[hint |-> ServerKey, by |-> ServerKey],
                          [hint |-> ClientKey, by |-> ClientKey]>>,
     op2Type   |-> IF "op2Type" \in d THEN "payment" ELSE "manage_data",
     op2Name   |-> IF "op2Name" \in d THEN "other" ELSE "web_auth_domain",
     op2Value  |-> IF "op2Value" \in d THEN "other.example" ELSE Domain,
     issuerUp  |-> "issuerDown" \notin d]

Payloads == {Payload(d, n) : d \in DefectSets, n \in NonceStrings}

\* no VerifyChallenge call has returned yet: the result is empty
NoVerify == [payload |-> Payload({}, ""), result |-> "", attempted |-> FALSE,
             consumed |-> FALSE, storeChanged |-> FALSE]

\* the checks of VerifyChallenge that come before nonceStore.Consume:
\* the first one that fails, or "ok"
BeforeConsumeNoName(p) ==
    IF ~p.parses THEN "failed to parse challenge transaction"
    ELSE IF p.feeBump THEN "challenge transaction must not be fee bump"
    ELSE IF p.numOps < 2
         THEN "challenge transaction must have at least two operations"
    ELSE IF p.op1Type # "manage_data"
         THEN "first operation must be manage_data"
    ELSE IF p.op1Value = Nil THEN "challenge nonce missing"
    ELSE "ok"

BeforeConsume(p) ==
    IF ~p.parses THEN "failed to parse challenge transaction"
    ELSE IF p.feeBump THEN "challenge transaction must not be fee bump"
    ELSE IF p.numOps < 2
         THEN "challenge transaction must have at least two operations"
    ELSE IF p.op1Type # "manage_data"
         THEN "first operation must be manage_data"
    ELSE IF p.op1Value = Nil THEN "challenge nonce missing"
    ELSE IF p.op1Name # Domain \o " auth"
         THEN "invalid challenge operation name"
    ELSE "ok"

\* what a.accountFetcher does for the call: no fetcher is configured
NoFetch == [fetcher |-> "none", signers |-> <<>>, medium |-> 0]

\* the checks of VerifyChallenge that come after a successful Consume, for
\* the outcome f of the account fetcher
AfterConsumeFetched(p, f) ==
    IF p.txSource # ServerKey
    THEN "challenge transaction source account must be the server signing key"
    ELSE IF p.op1Source = ""
         THEN "first operation missing source account (client account)"
    ELSE IF verifyChallengeSignaturesOf(p.op1Source,
                [fetcher |-> f.fetcher, signers |-> f.signers,
                 medium |-> f.medium, sigs |-> p.sigs]) # "ok"
         THEN verifyChallengeSignaturesOf(p.op1Source,
                [fetcher |-> f.fetcher, signers |-> f.signers,
                 medium |-> f.medium, sigs |-> p.sigs])
    ELSE IF p.op2Type # "manage_data"
         THEN "second operation must be manage_data"
    ELSE IF p.op2Name # "web_auth_domain"
         THEN "web_auth_domain operation missing"
    ELSE IF p.op2Value # Domain THEN "web_auth_domain value mismatch"
    ELSE IF ~p.issuerUp THEN "failed to issue JWT"
    ELSE "ok"

\* the issuer of the challenge engine's own checks has no fetcher configured
AfterConsume(p) == AfterConsumeFetched(p, NoFetch)

\* The checks of VerifyChallenge read only the payload and the issuer's
\* configuration, and its one access to shared state, Consume, is atomic: a
\* call is one step. Its record is handed to the caller (VerifyReturn) before
\* the next step is taken.

\* nonce, err := GenerateNonce(48); nonceStore.Add(nonce, now + timeout)
CreateChallenge(n) ==
    /\ verified = NoVerify
    /\ adds[n] < MaxAdds
    /\ LET r == AddNonce(nonces, n, now + challengeTimeout)
       IN  /\ nonces' = r.store
           /\ adds' = IF r.ok THEN [adds EXCEPT ![n] = @ + 1] ELSE adds
    /\ UNCHANGED <<now, consumes, verified>>

VerifyChallenge(p) ==
    /\ verified = NoVerify
    /\ IF BeforeConsume(p) # "ok"
       THEN /\ verified' = [payload |-> p, result |-> BeforeConsume(p),
                            attempted |-> FALSE, consumed |-> FALSE,
                            storeChanged |-> FALSE]
            /\ UNCHANGED <<nonces, now, adds, consumes>>
       ELSE LET r == ConsumeNonce(nonces, p.op1Value, now)
            IN  /\ nonces' = r.store
                /\ consumes' = IF r.ok
                               THEN [consumes EXCEPT ![p.op1Value] = @ + 1]
                               ELSE consumes
                /\ verified' = [payload |-> p,
                                result |-> IF r.ok THEN AfterConsume(p)
                                           ELSE "nonce already used or expired",
                                attempted |-> TRUE, consumed |-> r.ok,
                                storeChanged |-> r.store # nonces]
                /\ UNCHANGED <<now, adds>>

\* the caller has received the result of VerifyChallenge
VerifyReturn ==
    /\ verified # NoVerify
    /\ verified' = NoVerify
    /\ UNCHANGED <<nonces, now, adds, consumes>>

(***************************************************************************)
(* A challenge from CreateChallenge to VerifyChallenge: the issuer builds  *)
(* it for an account, the account's key countersigns it, and it is handed  *)
(* back while the account fetcher answers in one of its ways.              *)
(***************************************************************************)
\* the accounts a challenge is requested for: any valid address passes
\* keypair.ParseAddress, the server's own included
ChallengeAccounts == {ClientKey, ServerKey}

NoChallenge == [account |-> "", at |-> 0]

\* a challenge whose second operation names another domain
ChallengeOtherDomain(n, account) ==
    [Payload({"op2Value"}, n) EXCEPT
        !.op1Source = account,
        !.sigs = <<[hint |-> ServerKey, by |-> ServerKey]>>]

\* the envelope CreateChallenge returns: both operations as built, signed
\* by the server
Challenge(n, account) ==
    [Payload({}, n) EXCEPT !.op1Source = account,
                           !.sigs = <<[hint |-> ServerKey, by |-> ServerKey]>>]

\* the client adds the signature of the account's key
Countersigned(p) ==
    [p EXCEPT !.sigs = Append(@, [hint |-> p.op1Source, by |-> p.op1Source])]

\* FetchSigners for the account: not configured, an error, or the signers
\* and the medium threshold the network reports
FetchOutcomes ==
    {[fetcher |-> f, signers |-> <<>>, medium |-> 0] :
        f \in FetcherModes \ {"found"}}
    \cup {[fetcher |-> "found", signers |-> s, medium |-> m] :
              s \in SignerSets, m \in Thresholds}

NoRound == [nonce |-> "", account |-> "", signed |-> FALSE, first |-> FALSE,
            age |-> 0, fetch |-> NoFetch, result |-> "", subject |-> ""]

RoundIdle ==
    /\ issued = [n \in NonceStrings |-> NoChallenge]
    /\ tried = {}
    /\ roundOut = NoRound

\* CreateChallenge(account) with the nonce GenerateNonce drew
CreateChallengeFor(n, account) ==
    /\ roundOut = NoRound
    /\ CreateChallenge(n)
    /\ IF AddNonce(nonces, n, now + challengeTimeout).ok
       THEN /\ issued' = [issued EXCEPT ![n] = [account |-> account, at |-> now]]
            /\ tried' = tried \ {n}
       ELSE UNCHANGED <<issued, tried>>
    /\ UNCHANGED roundOut

\* VerifyChallenge on the challenge issued with nonce n, countersigned or
\* as issued, while the fetcher answers f; on success the claims handed to
\* jwtIssuer.Issue carry Subject: account
VerifyIssued(n, signed, f) ==
    /\ roundOut = NoRound
    /\ issued[n] # NoChallenge
    \* SignerSets are signer lists of ClientKey's account
    /\ f.fetcher = "found" => issued[n].account = ClientKey
    /\ LET c == Challenge(n, issued[n].account)
           p == IF signed THEN Countersigned(c) ELSE c
           r == ConsumeNonce(nonces, p.op1Value, now)
           out == IF BeforeConsume(p) # "ok" THEN BeforeConsume(p)
                  ELSE IF ~r.ok THEN "nonce already used or expired"
                  ELSE AfterConsumeFetched(p, f)
       IN  /\ nonces' = IF BeforeConsume(p) # "ok" THEN nonces ELSE r.store
           /\ consumes' = IF BeforeConsume(p) = "ok" /\ r.ok
                          THEN [consumes EXCEPT ![n] = @ + 1] ELSE consumes
           /\ tried' = tried \cup {n}
           /\ roundOut' = [nonce |-> n, account |-> issued[n].account,
                           signed |-> signed, first |-> n \notin tried,
                           age |-> now - issued[n].at, fetch |-> f,
                           result |-> out,
                           subject |-> IF out = "ok" THEN p.op1Source ELSE ""]
    /\ UNCHANGED <<now, adds, issued, verified>>

\* the caller has received the token or the error
RoundReturn ==
    /\ roundOut # NoRound
    /\ roundOut' = NoRound
    /\ UNCHANGED <<nonces, now, adds, consumes, verified, issued, tried>>

(***************************************************************************)
(* hmacJWT (anchor/jwt.go): Issue and Verify of session tokens.            *)
(***************************************************************************)
\* clock ticks in one second: Unix() drops the fraction
TicksPerSecond == 2
\* the clock runs from 0 to MaxClock ticks
MaxClock == 8
\* the longest configured expiry, in ticks
MaxExpiry == 3

\* time.Time.Unix(): whole seconds
Unix(t) == t \div TicksPerSecond

\* a string that is not valid UTF-8, and what json.Marshal writes for it:
\* every invalid byte becomes U+FFFD
InvalidUTF8 == "42<ff>"
ReplacedUTF8 == "42<fffd>"

\* json.Marshal followed by json.Unmarshal of a string field
jsonRoundTrip(str) == IF str = InvalidUTF8 THEN ReplacedUTF8 ELSE str

JwtIssuers == {Domain, "other.example"}
JwtSubjects == {ClientKey, CoSignerKey}
JwtAuthMethods == {"sep10", "sep45"}
JwtMemos == {"", "42", InvalidUTF8}

NoClaims == [subject |-> "", issuer |-> "", authMethod |-> "", memo |-> ""]
NoToken == [sub |-> "", iss |-> "", iat |-> 0, exp |-> 0, authMethod |-> "",
            memo |-> "", signed |-> FALSE]
NoJwtOut == [result |-> "", claims |-> NoClaims, at |-> 0]

JwtIdle ==
    /\ jwtCfg = [issuer |-> "", expiry |-> 0]
    /\ clock = 0
    /\ minted = NoClaims
    /\ token = NoToken
    /\ jwtOut = NoJwtOut

\* NewHMACJWT(secret, issuer, expiry): nothing is validated
JwtInit ==
    /\ \E i \in JwtIssuers, e \in 0..MaxExpiry :
           jwtCfg = [issuer |-> i, expiry |-> e]
    /\ clock = 0
    /\ minted = NoClaims
    /\ token = NoToken
    /\ jwtOut = NoJwtOut

\* Issue: the payload is built from the claims and the configuration,
\* marshalled and signed with the secret; the token is held here as the
\* payload a holder of the secret decodes from it
Issue(claims) ==
    /\ token = NoToken
    /\ minted' = claims
    /\ token' = [sub |-> jsonRoundTrip(claims.subject),
                 iss |-> jsonRoundTrip(jwtCfg.issuer),
                 iat |-> Unix(clock),
                 exp |-> Unix(clock + jwtCfg.expiry),
                 authMethod |-> jsonRoundTrip(claims.authMethod),
                 memo |-> jsonRoundTrip(claims.memo),
                 signed |-> TRUE]
    /\ UNCHANGED <<jwtCfg, clock, jwtOut>>

\* someone without the secret rewrites the payload part to live longer
Forge ==
    /\ token # NoToken
    /\ token.signed
    /\ token' = [token EXCEPT !.exp = @ + 1, !.signed = FALSE]
    /\ UNCHANGED <<jwtCfg, clock, minted, jwtOut>>

\* Verify accepting a token in the second it expires
VerifyTokenLate ==
    /\ token # NoToken
    /\ jwtOut' =
          IF ~token.signed
          THEN [result |-> "JWT_VERIFICATION_FAILED", claims |-> NoClaims,
                at |-> clock]
          ELSE IF token.exp < Unix(clock)
          THEN [result |-> "JWT_EXPIRED", claims |-> NoClaims, at |-> clock]
          ELSE IF token.iss # jwtCfg.issuer
          THEN [result |-> "JWT_VERIFICATION_FAILED", claims |-> NoClaims,
                at |-> clock]
          ELSE [result |-> "ok",
                claims |-> [subject |-> token.sub, issuer |-> token.iss,
                            authMethod |-> token.authMethod,
                            memo |-> token.memo],
                at |-> clock]
    /\ UNCHANGED <<jwtCfg, clock, minted, token>>

\* Verify: signature, then payload.Exp <= now.Unix(), then the issuer
VerifyToken ==
    /\ token # NoToken
    /\ jwtOut' =
          IF ~token.signed
          THEN [result |-> "JWT_VERIFICATION_FAILED", claims |-> NoClaims,
                at |-> clock]
          ELSE IF token.exp <= Unix(clock)
          THEN [result |-> "JWT_EXPIRED", claims |-> NoClaims, at |-> clock]
          ELSE IF token.iss # jwtCfg.issuer
          THEN [result |-> "JWT_VERIFICATION_FAILED", claims |-> NoClaims,
                at |-> clock]
          ELSE [result |-> "ok",
                claims |-> [subject |-> token.sub, issuer |-> token.iss,
                            authMethod |-> token.authMethod,
                            memo |-> token.memo],
                at |-> clock]
    /\ UNCHANGED <<jwtCfg, clock, minted, token>>

\* the wall clock advances by one tick
ClockTick ==
    /\ clock < MaxClock
    /\ clock' = clock + 1
    /\ UNCHANGED <<jwtCfg, minted, token, jwtOut>>

(***************************************************************************)
(* A hook handler that calls a mutation of the transfer manager: the       *)
(* handler runs on the goroutine of the outer mutation, inside Trigger,    *)
(* while updateAndTransition still holds the transfer's mutex.             *)
(***************************************************************************)
ReentryIdle ==
    /\ inner = [c \in Callers |-> "idle"]
    /\ innerId = [c \in Callers |-> "T1"]

\* the handler calls a mutation on transfer t: lockForTransfer(t)
HandlerCalls(c, t) ==
    /\ opPc[c] = "handler"
    /\ inner[c] = "idle"
    /\ transferMu = NoId
    /\ transferMu' = c
    /\ inner' = [inner EXCEPT ![c] = "registry"]
    /\ innerId' = [innerId EXCEPT ![c] = t]
    /\ UNCHANGED <<opPc, opId, mutexOf, hookReaders, registrar>>

InnerRegistryDone(c) ==
    /\ inner[c] = "registry"
    /\ transferMu' = NoId
    /\ inner' = [inner EXCEPT ![c] = "lock"]
    /\ UNCHANGED <<opPc, opId, mutexOf, hookReaders, registrar, innerId>>

\* mu.Lock() of a sync.Mutex whoever holds it, the caller itself included
InnerLockReentrant(c) ==
    /\ inner[c] = "lock"
    /\ mutexOf[innerId[c]] \in {NoId, c}
    /\ mutexOf' = [mutexOf EXCEPT ![innerId[c]] = c]
    /\ inner' = [inner EXCEPT ![c] = "store"]
    /\ UNCHANGED <<opPc, opId, transferMu, hookReaders, registrar, innerId>>

\* mu.Lock() in the nested updateAndTransition: sync.Mutex has no owner,
\* it is granted only when nobody holds it
InnerLock(c) ==
    /\ inner[c] = "lock"
    /\ mutexOf[innerId[c]] = NoId
    /\ mutexOf' = [mutexOf EXCEPT ![innerId[c]] = c]
    /\ inner' = [inner EXCEPT ![c] = "store"]
    /\ UNCHANGED <<opPc, opId, transferMu, hookReaders, registrar, innerId>>

\* the nested store calls have returned
InnerStoreDone(c) ==
    /\ inner[c] = "store"
    /\ inner' = [inner EXCEPT ![c] = "trigger"]
    /\ UNCHANGED <<opPc, opId, transferMu, mutexOf, hookReaders, registrar,
                   innerId>>

\* the nested Trigger: a second r.mu.RLock() on the goroutine that already
\* holds one, then its handlers and the RUnlock
InnerTrigger(c) ==
    /\ inner[c] = "trigger"
    /\ ReadLockFree
    /\ inner' = [inner EXCEPT ![c] = "unlock"]
    /\ UNCHANGED <<opPc, opId, transferMu, mutexOf, hookReaders, registrar,
                   innerId>>

\* the deferred mu.Unlock() of the nested call; it returns to the handler
InnerUnlock(c) ==
    /\ inner[c] = "unlock"
    /\ mutexOf' = [mutexOf EXCEPT ![innerId[c]] =
                      IF innerId[c] = opId[c] THEN c ELSE NoId]
    /\ inner' = [inner EXCEPT ![c] = "returned"]
    /\ UNCHANGED <<opPc, opId, transferMu, hookReaders, registrar, innerId>>

\* the handler returns once the mutation it called, if any, has returned
HandlerDone(c) ==
    /\ inner[c] \in {"idle", "returned"}
    /\ OpHandlersDone(c)
    /\ inner' = [inner EXCEPT ![c] = "idle"]
    /\ UNCHANGED innerId

(***************************************************************************)
(* The reference anchor's /interactive handlers (examples/anchor).         *)
(***************************************************************************)
NoRequest == [handler |-> "none", token |-> NoId, stage |-> "none",
              id |-> NoId, response |-> ""]

HttpIdle ==
    /\ http = [c \in Callers |-> NoRequest]
    /\ shown = {}

\* GET /interactive?token=k: tm.VerifyInteractiveToken, which is
\* ConsumeInteractiveToken
HandleGet(c, k) ==
    /\ http[c] = NoRequest
    /\ ConsumeInteractiveToken(c, k)
    /\ http' = [http EXCEPT ![c] =
          [NoRequest EXCEPT !.handler = "GET", !.token = k,
                            !.stage = "verify"]]
    /\ UNCHANGED shown

\* the token call has returned: 401 on an error, otherwise the form page
GetRespond(c) ==
    /\ http[c].handler = "GET"
    /\ http[c].stage = "verify"
    /\ Return(c)
    /\ http' = [http EXCEPT
          ![c].stage = "responded",
          ![c].response = IF call[c].result = "ok" THEN "200" ELSE "401"]
    /\ shown' = IF call[c].result = "ok"
                THEN shown \cup {http[c].token} ELSE shown

\* POST /interactive with the token k and the form fields:
\* tm.VerifyInteractiveToken
HandlePost(c, k) ==
    /\ http[c] = NoRequest
    /\ ConsumeInteractiveToken(c, k)
    /\ http' = [http EXCEPT ![c] =
          [NoRequest EXCEPT !.handler = "POST", !.token = k,
                            !.stage = "verify"]]
    /\ UNCHANGED shown

\* the token call has returned: 401 on an error, otherwise go on with the
\* transfer it returned
PostVerified(c) ==
    /\ http[c].handler = "POST"
    /\ http[c].stage = "verify"
    /\ Return(c)
    /\ http' = [http EXCEPT ![c] =
          IF call[c].result = "ok"
          THEN [@ EXCEPT !.stage = "complete", !.id = call[c].ret]
          ELSE [@ EXCEPT !.stage = "responded", !.response = "401"]]
    /\ UNCHANGED shown

\* tm.CompleteInteractive(transfer.ID, kycData)
PostComplete(c) ==
    /\ http[c].handler = "POST"
    /\ http[c].stage = "complete"
    /\ CompleteInteractive(c, http[c].id)
    /\ http' = [http EXCEPT ![c].stage = "completing"]
    /\ UNCHANGED shown

\* CompleteInteractive has returned: 500 on an error, otherwise 200
PostRespond(c) ==
    /\ http[c].handler = "POST"
    /\ http[c].stage = "completing"
    /\ Return(c)
    /\ http' = [http EXCEPT
          ![c].stage = "responded",
          ![c].response = IF call[c].result = "ok" THEN "200" ELSE "500"]
    /\ UNCHANGED shown

\* the response has been written; the goroutine is free again
RequestDone(c) ==
    /\ http[c].stage = "responded"
    /\ http' = [http EXCEPT ![c] = NoRequest]
    /\ UNCHANGED <<tmVars, shown>>

(***************************************************************************)
(* The transfer manager under concurrent callers.                          *)
(***************************************************************************)
AuthIdle == verified = NoVerify
SigIdle == sigIn = NoSigIn /\ sigOut = ""

Init == TMInit /\ NonceInit /\ AuthIdle /\ SigIdle /\ LocksInit /\ FsmIdle /\ ObsIdle /\ NetIdle /\ RoundIdle /\ JwtIdle /\ ReentryIdle /\ ObsHistIdle /\ HttpIdle

\* one step of caller c in whatever operation it is in or begins
Step(c) ==
    \/ \E k \in Kinds, m \in Modes, a \in Accounts : Initiate(c, k, m, a)
    \/ InitMint(c)
    \/ InitSave(c)
    \/ InitHook(c)
    \/ \E t \in TransferIds, r \in ExternalRefs, a \in NotifyAmounts :
           NotifyFundsReceived(c, t, r, a)
    \/ \E t \in TransferIds, h \in TxHashes : NotifyPaymentSent(c, t, h)
    \/ \E t \in TransferIds, h \in TxHashes :
           NotifyPaymentReceived(c, t, h)
    \/ \E t \in TransferIds, r \in ExternalRefs :
           NotifyDisbursementSent(c, t, r)
    \/ \E t \in TransferIds, r \in Reasons : Deny(c, t, r)
    \/ \E t \in TransferIds, r \in Reasons : Cancel(c, t, r)
    \/ \E t \in TransferIds : CompleteInteractive(c, t)
    \/ Lock(c)
    \/ Load(c)
    \/ UpdateBegin(c)
    \/ UpdateWrite(c)
    \/ Hooks(c)
    \/ Unlock(c)
    \/ \E t \in TransferIds : GetStatus(c, t)
    \/ GetStatusRead(c)
    \/ \E k \in Tokens : PeekInteractiveToken(c, k)
    \/ \E k \in Tokens : ConsumeInteractiveToken(c, k)
    \/ ConsumeDelete(c)
    \/ TokenFind(c)
    \/ Return(c)

Next ==
    /\ UNCHANGED <<nonceVars, authVars, sigVars, lockVars, fsmVars, obsVars, netVars, roundVars, jwtVars, reVars, histVars, exVars>>
    /\ \E c \in Callers : Step(c)

vars == <<tmVars, nonceVars, authVars, sigVars, lockVars, fsmVars, obsVars, netVars, roundVars, jwtVars, reVars, histVars, exVars>>

Spec == Init /\ [][Next]_vars

(***************************************************************************)
(* The transfer manager called by one caller at a time over a store whose  *)
(* calls may fail.                                                         *)
(***************************************************************************)
SoloCaller == CHOOSE c \in Callers : TRUE

InitFault == TMInit /\ NonceInit /\ AuthIdle /\ SigIdle /\ LocksInit /\ FsmIdle /\ ObsIdle /\ NetIdle /\ RoundIdle /\ JwtIdle /\ ReentryIdle /\ ObsHistIdle /\ HttpIdle

NextFault ==
    /\ UNCHANGED <<nonceVars, authVars, sigVars, lockVars, fsmVars, obsVars, netVars, roundVars, jwtVars, reVars, histVars, exVars>>
    /\ \/ Step(SoloCaller)
       \/ SaveFails(SoloCaller)
       \/ LoadFails(SoloCaller)
       \/ UpdateFails(SoloCaller)
       \/ ReloadFails(SoloCaller)
       \/ \E t \in TransferIds : CompleteInteractiveFails(SoloCaller, t)

SpecFault == InitFault /\ [][NextFault]_vars

(***************************************************************************)
(* The reference anchor: transfers are initiated and the /interactive      *)
(* page is requested and submitted.                                        *)
(***************************************************************************)
InitExample == TMInit /\ NonceInit /\ AuthIdle /\ SigIdle /\ LocksInit /\ FsmIdle /\ ObsIdle /\ NetIdle /\ RoundIdle /\ JwtIdle /\ ReentryIdle /\ ObsHistIdle /\ HttpIdle

\* one step of goroutine c: a call of the transfer manager goes on, an
\* initiation begins or returns, or a handler takes its next step
ExampleStep(c) ==
    \/ /\ \/ /\ http[c] = NoRequest
             /\ \/ \E k \in Kinds, m \in Modes, a \in Accounts :
                       Initiate(c, k, m, a)
                \/ Return(c)
          \/ InitMint(c)
          \/ InitSave(c)
          \/ InitHook(c)
          \/ Lock(c)
          \/ Load(c)
          \/ UpdateBegin(c)
          \/ UpdateWrite(c)
          \/ Hooks(c)
          \/ Unlock(c)
          \/ ConsumeDelete(c)
          \/ TokenFind(c)
       /\ UNCHANGED exVars
    \/ \E k \in Tokens : HandleGet(c, k)
    \/ GetRespond(c)
    \/ \E k \in Tokens : HandlePost(c, k)
    \/ PostVerified(c)
    \/ PostComplete(c)
    \/ PostRespond(c)
    \/ RequestDone(c)

NextExample ==
    /\ UNCHANGED <<nonceVars, authVars, sigVars, lockVars, fsmVars, obsVars, netVars, roundVars, jwtVars, reVars, histVars>>
    /\ \E c \in Callers : ExampleStep(c)

SpecExample == InitExample /\ [][NextExample]_vars

(***************************************************************************)
(* Mutations on two transfers by concurrent goroutines while handlers are  *)
(* being registered.                                                       *)
(***************************************************************************)
InitLocks == TMInit /\ NonceInit /\ AuthIdle /\ SigIdle /\ LocksInit /\ FsmIdle /\ ObsIdle /\ NetIdle /\ RoundIdle /\ JwtIdle /\ ReentryIdle /\ ObsHistIdle /\ HttpIdle

NextLocks ==
    /\ UNCHANGED <<tmVars, nonceVars, authVars, sigVars, fsmVars, obsVars, netVars, roundVars, jwtVars, reVars, histVars, exVars>>
    /\ \/ \E c \in Callers :
              \/ \E t \in LockIds : OpBegin(c, t)
              \/ OpRegistryDone(c)
              \/ OpLock(c)
              \/ OpStoreDone(c)
              \/ OpTrigger(c)
              \/ OpHandlersDone(c)
              \/ OpUnlock(c)
       \/ OnBegin
       \/ OnLock
       \/ OnDone

SpecLocks == InitLocks /\ [][NextLocks]_vars

(***************************************************************************)
(* The nonce store under any sequence of Add and Consume calls while time  *)
(* passes.                                                                 *)
(***************************************************************************)
InitNonce == TMInit /\ NonceInit /\ AuthIdle /\ SigIdle /\ LocksInit /\ FsmIdle /\ ObsIdle /\ NetIdle /\ RoundIdle /\ JwtIdle /\ ReentryIdle /\ ObsHistIdle /\ HttpIdle

NextNonce ==
    /\ UNCHANGED <<tmVars, authVars, sigVars, lockVars, fsmVars, obsVars, netVars, roundVars, jwtVars, reVars, histVars, exVars>>
    /\ \/ \E n \in NonceStrings, e \in Times : Add(n, e)
       \/ \E n \in NonceStrings : Consume(n)
       \/ Tick

SpecNonce == InitNonce /\ [][NextNonce]_vars

(***************************************************************************)
(* The auth issuer: challenges are created and payloads are verified while *)
(* time passes.                                                            *)
(***************************************************************************)
InitAuth == TMInit /\ NonceInit /\ AuthIdle /\ SigIdle /\ LocksInit /\ FsmIdle /\ ObsIdle /\ NetIdle /\ RoundIdle /\ JwtIdle /\ ReentryIdle /\ ObsHistIdle /\ HttpIdle

NextAuth ==
    /\ UNCHANGED <<tmVars, sigVars, lockVars, fsmVars, obsVars, netVars, roundVars, jwtVars, reVars, histVars, exVars>>
    /\ \/ \E n \in NonceStrings : CreateChallenge(n)
       \/ \E p \in Payloads : VerifyChallenge(p)
       \/ VerifyReturn
       \/ Tick /\ verified = NoVerify /\ UNCHANGED verified

SpecAuth == InitAuth /\ [][NextAuth]_vars

(***************************************************************************)
(* CreateChallenge, the client's signature and VerifyChallenge in turn.    *)
(***************************************************************************)
InitRound == TMInit /\ NonceInit /\ AuthIdle /\ SigIdle /\ LocksInit /\ FsmIdle /\ ObsIdle /\ NetIdle /\ RoundIdle /\ JwtIdle /\ ReentryIdle /\ ObsHistIdle /\ HttpIdle

NextRound ==
    /\ UNCHANGED <<tmVars, sigVars, lockVars, fsmVars, obsVars, netVars, jwtVars, reVars, histVars, exVars>>
    /\ \/ \E n \in NonceStrings, a \in ChallengeAccounts :
              CreateChallengeFor(n, a)
       \/ \E n \in NonceStrings, signed \in BOOLEAN, f \in FetchOutcomes :
              VerifyIssued(n, signed, f)
       \/ RoundReturn
       \/ Tick /\ roundOut = NoRound /\ UNCHANGED <<verified, roundVars>>

SpecRound == InitRound /\ [][NextRound]_vars

(***************************************************************************)
(* One token service: a token is issued once and verified as time passes.  *)
(***************************************************************************)
InitJwt == TMInit /\ NonceInit /\ AuthIdle /\ SigIdle /\ LocksInit /\ FsmIdle /\ ObsIdle /\ NetIdle /\ RoundIdle /\ JwtInit /\ ReentryIdle /\ ObsHistIdle /\ HttpIdle

NextJwt ==
    /\ UNCHANGED <<tmVars, nonceVars, authVars, sigVars, lockVars, fsmVars, obsVars, netVars, roundVars, reVars, histVars, exVars>>
    /\ \/ \E s \in JwtSubjects, i \in JwtIssuers, a \in JwtAuthMethods,
             m \in JwtMemos :
              Issue([subject |-> s, issuer |-> i, authMethod |-> a,
                     memo |-> m])
       \/ Forge
       \/ VerifyToken
       \/ ClockTick

SpecJwt == InitJwt /\ [][NextJwt]_vars

(***************************************************************************)
(* Mutations whose hook handlers may call back into the transfer manager.  *)
(***************************************************************************)
InitReentry == TMInit /\ NonceInit /\ AuthIdle /\ SigIdle /\ LocksInit /\ FsmIdle /\ ObsIdle /\ NetIdle /\ RoundIdle /\ JwtIdle /\ ReentryIdle /\ ObsHistIdle /\ HttpIdle

\* one step of goroutine c
ReentryStep(c) ==
    \/ /\ \/ \E t \in LockIds : OpBegin(c, t)
          \/ OpRegistryDone(c)
          \/ OpLock(c)
          \/ OpStoreDone(c)
          \/ OpTrigger(c)
          \/ OpUnlock(c)
       /\ UNCHANGED reVars
    \/ \E t \in LockIds : HandlerCalls(c, t)
    \/ InnerRegistryDone(c)
    \/ InnerLock(c)
    \/ InnerStoreDone(c)
    \/ InnerTrigger(c)
    \/ InnerUnlock(c)
    \/ HandlerDone(c)

\* one step of a goroutine registering a handler
RegistrarStep ==
    /\ OnBegin \/ OnLock \/ OnDone
    /\ UNCHANGED reVars

NextReentry ==
    /\ UNCHANGED <<tmVars, nonceVars, authVars, sigVars, fsmVars, obsVars, netVars, roundVars, jwtVars, histVars, exVars>>
    /\ \/ \E c \in Callers : ReentryStep(c)
       \/ RegistrarStep

reentryVars == <<lockVars, reVars>>

\* every goroutine that can take a step eventually takes one
FairReentry ==
    /\ \A c \in Callers : WF_reentryVars(ReentryStep(c))
    /\ WF_reentryVars(RegistrarStep)

SpecReentry == InitReentry /\ [][NextReentry]_vars /\ FairReentry

(***************************************************************************)
(* verifyChallengeSignatures applied to every input within the bounds.     *)
(***************************************************************************)
InitSig == TMInit /\ NonceInit /\ AuthIdle /\ SigInit /\ LocksInit /\ FsmIdle /\ ObsIdle /\ NetIdle /\ RoundIdle /\ JwtIdle /\ ReentryIdle /\ ObsHistIdle /\ HttpIdle

NextSig ==
    /\ UNCHANGED <<tmVars, nonceVars, authVars, lockVars, fsmVars, obsVars, netVars, roundVars, jwtVars, reVars, histVars, exVars>>
    /\ VerifySignatures

SpecSig == InitSig /\ [][NextSig]_vars

(***************************************************************************)
(* ValidateTransition on every pair of arguments.                          *)
(***************************************************************************)
InitFsm == TMInit /\ NonceInit /\ AuthIdle /\ SigIdle /\ LocksInit /\ FsmInit /\ ObsIdle /\ NetIdle /\ RoundIdle /\ JwtIdle /\ ReentryIdle /\ ObsHistIdle /\ HttpIdle

NextFsm ==
    /\ UNCHANGED <<tmVars, nonceVars, authVars, sigVars, lockVars, obsVars, netVars, roundVars, jwtVars, reVars, histVars, exVars>>
    /\ Validate

SpecFsm == InitFsm /\ [][NextFsm]_vars

(***************************************************************************)
(* The observer with two callers of Start, a caller of Stop, cancellable   *)
(* contexts, a growing ledger and a stream that can fail at any time.      *)
(***************************************************************************)
InitObs ==
    TMInit /\ NonceInit /\ AuthIdle /\ SigIdle /\ LocksInit /\ FsmIdle /\ ObsInit /\ NetIdle /\ RoundIdle /\ JwtIdle /\ ReentryIdle /\ ObsHistIdle /\ HttpIdle

\* the steps of the goroutine that called Start
StartStep(c) ==
    \/ StartCall(c)
    \/ LoopTop(c)
    \/ Connect(c)
    \/ Dispatch(c)
    \/ \E err \in BOOLEAN : HandlerReturns(c, err)
    \/ UpdateCursor(c)
    \/ \E err \in BOOLEAN : SaveCursor(c, err)
    \/ AfterStream(c)
    \/ TimerFires(c)
    \/ WaitInterrupted(c)

\* the steps of Horizon, of the stream and of the other goroutines
EnvStep ==
    \/ \E c \in Callers :
          \/ Deliver(c)
          \/ StreamFails(c)
          \/ \E err \in BOOLEAN : StreamCancelled(c, err)
          \/ CancelContext(c)
    \/ Stop
    \/ \E op \in Ops : AppendOp(op)

NextObs ==
    /\ UNCHANGED <<tmVars, nonceVars, authVars, sigVars, lockVars, fsmVars, netVars, roundVars, jwtVars, reVars, histVars, exVars>>
    /\ \/ \E c \in Callers : StartStep(c)
       \/ EnvStep

SpecObs == InitObs /\ [][NextObs]_vars

\* the goroutine of every Start takes its next step whenever it has one, and
\* StreamPayments returns once its context is done; nothing makes a stream
\* fail, an operation arrive, Stop be called or a context be cancelled
FairObs ==
    \A c \in Callers :
        /\ WF_obsVars(StartStep(c))
        /\ WF_obsVars(\E err \in BOOLEAN : StreamCancelled(c, err))

SpecObsLive == InitObs /\ [][NextObs]_vars /\ FairObs

(***************************************************************************)
(* The observer as NewHorizonObserver builds it, with a record of whether  *)
(* each Start call has opened a stream and of where the first one began.   *)
(***************************************************************************)
\* NewHorizonObserver: cursor "now", backoff from the shortest to the
\* longest duration; a cursor-saver may be configured
ObsDefaultInit ==
    /\ ledger = <<>>
    /\ \E s \in BOOLEAN :
           obsCfg = [initialBackoff |-> 1, maxBackoff |-> MaxDuration,
                     saver |-> s]
    /\ cursor = CursorNow
    /\ running = FALSE
    /\ stopChan = "open"
    /\ ctxDone = [c \in Callers |-> FALSE]
    /\ start = [c \in Callers |-> NoStart]
    /\ handled = {}
    /\ saved = <<>>
    /\ lastWait = 0
    /\ wStatus = "payment_required"
    /\ tmCalls = <<>>

InitObsHist == TMInit /\ NonceInit /\ AuthIdle /\ SigIdle /\ LocksInit /\ FsmIdle /\ ObsDefaultInit /\ NetIdle /\ RoundIdle /\ JwtIdle /\ ReentryIdle /\ ObsHistIdle /\ HttpIdle

\* what the step adds to the record
Recorded ==
    /\ began' = [c \in Callers |->
                    IF ~opened[c] /\ start'[c].pc = "streaming"
                    THEN start'[c].pos ELSE began[c]]
    /\ opened' = [c \in Callers |-> opened[c] \/ start'[c].pc = "streaming"]

NextObsHist ==
    /\ UNCHANGED <<tmVars, nonceVars, authVars, sigVars, lockVars, fsmVars, netVars, roundVars, jwtVars, reVars, exVars>>
    /\ \/ \E c \in Callers : StartStep(c)
       \/ EnvStep
    /\ Recorded

SpecObsHist == InitObsHist /\ [][NextObsHist]_vars

(***************************************************************************)
(* Challenges verified on an issuer of the same or of another network.     *)
(***************************************************************************)
InitNet == TMInit /\ NonceInit /\ AuthIdle /\ SigIdle /\ LocksInit /\ FsmIdle /\ ObsIdle /\ NetInit /\ RoundIdle /\ JwtIdle /\ ReentryIdle /\ ObsHistIdle /\ HttpIdle

NextNet ==
    /\ UNCHANGED <<tmVars, nonceVars, authVars, sigVars, lockVars, fsmVars, obsVars, roundVars, jwtVars, reVars, histVars, exVars>>
    /\ VerifyOnNetwork

SpecNet == InitNet /\ [][NextNet]_vars

(***************************************************************************)
(* Properties of the transfer manager.                                     *)
(***************************************************************************)
\* the caller holds the per-transfer mutex between Lock and Unlock
InCritical(c) == call[c].pc \in {"load", "update", "write", "hooks", "unlock"}

\* no call is inside its load-validate-write-notify section for transfer t
Quiescent(t) == \A c \in Callers : ~(InCritical(c) /\ call[c].id = t)

Returned(c, op) == call[c].pc = "done" /\ call[c].op = op

\* C1: for every transfer, the status values it has held, beginning with the
\* initiating status it is created with, form a walk in the legal-transition
\* relation: every change of status is an allowed (from, to) pair.
C1_StatusWalkIsLegal ==
    \A t \in TransferIds :
        Exists(t) =>
            /\ walk[t][1] = "initiating"
            /\ walk[t][Len(walk[t])] = transfers[t].status
            /\ \A i \in 1..(Len(walk[t]) - 1) :
                   ValidateTransition(walk[t][i], walk[t][i + 1]) = "ok"

\* two NotifyFundsReceived calls that have returned, issued on the same
\* transfer while it was in pending_external at position n of its walk
RacedFundsReceived(c1, c2) ==
    /\ c1 # c2
    /\ Returned(c1, "NotifyFundsReceived")
    /\ Returned(c2, "NotifyFundsReceived")
    /\ call[c1].id = call[c2].id
    /\ call[c1].startLen = call[c2].startLen
    /\ call[c1].startLen >= 1
    /\ walk[call[c1].id][call[c1].startLen] = "pending_external"

\* C2: of two NotifyFundsReceived calls racing on a transfer in
\* pending_external, one succeeds and moves it to pending_stellar and the other
\* returns transition-invalid (both fail only when a third call moved the
\* transfer first); the load-validate-write sections of two mutating calls on
\* the same transfer never overlap.
C2_OneFundsReceivedWins ==
    /\ \A c1, c2 \in Callers :
           (c1 # c2 /\ InCritical(c1) /\ InCritical(c2))
               => call[c1].id # call[c2].id
    /\ \A c1, c2 \in Callers :
           RacedFundsReceived(c1, c2) =>
               LET t == call[c1].id
                   n == call[c1].startLen
                   r1 == call[c1].result
                   r2 == call[c2].result
               IN /\ {r1, r2} \subseteq {"ok", "transition-invalid"}
                  /\ ~(r1 = "ok" /\ r2 = "ok")
                  /\ Len(walk[t]) > n
                  /\ ("ok" \in {r1, r2}) => walk[t][n + 1] = "pending_stellar"
                  /\ (NumCallers = 2) => ("ok" \in {r1, r2})

C2_Witness ==
    \E c1, c2 \in Callers :
        /\ RacedFundsReceived(c1, c2)
        /\ call[c1].result = "ok"
        /\ call[c2].result = "transition-invalid"
        /\ transfers[call[c1].id].status = "pending_stellar"

\* C3: a GetStatus that returns a view returns the view of a record as it was
\* committed to the store, before or after a mutation, never a mixture of the
\* fields of two of them.
C3_GetStatusViewIsCommitted ==
    \A c \in Callers :
        (Returned(c, "GetStatus") /\ call[c].result = "ok")
            => \E v \in versions[call[c].id] : call[c].view = ViewOf(v)

(***************************************************************************)
(* Properties of the challenge verification and of the nonce store.        *)
(***************************************************************************)
RECURSIVE SumWeights(_, _)
SumWeights(signers, keys) ==
    IF keys = {} THEN 0
    ELSE LET k == CHOOSE x \in keys : TRUE
         IN  signers[k] + SumWeights(signers, keys \ {k})

\* the keys that made a signature of the input
SignedBy(in) == {in.sigs[i].by : i \in DOMAIN in.sigs}

\* the weight of the subject's signers, the server key apart, that signed
ClientWeight(in) ==
    SumWeights(clientSigners(in),
               (SignedBy(in) \cap DOMAIN clientSigners(in)) \ {ServerKey})

\* C4: whenever the signatures of a challenge are accepted, the server key
\* signed it and the signers of the subject that signed it, the server key
\* not counted, have weights that sum to the medium threshold or more, and
\* to 1 or more when the threshold is 0.
C4_AcceptedMeetsThreshold ==
    sigOut = "ok" =>
        /\ ServerKey \in SignedBy(sigIn)
        /\ ClientWeight(sigIn) >= medThreshold(sigIn)
        /\ medThreshold(sigIn) = 0 => ClientWeight(sigIn) >= 1

\* C5 as stated: for every nonce string at most one Consume ever returns
\* true, whatever Add and Consume calls are made.
C5_ConsumedNeverAgain ==
    \A n \in NonceStrings : consumes[n] <= 1

\* C5 amended: a Consume returns true only for an entry that is present and
\* unconsumed, and marks it consumed; a consumed entry stays consumed until a
\* Consume call sweeps it after its expiry; Add accepts a string only while
\* the store has no entry for it. So between two Consume calls of a string
\* that return true lie its expiry, a sweep and an accepted Add.
C5_ConsumedOncePerAdd ==
    [][\A n \in NonceStrings :
          /\ consumes'[n] # consumes[n] =>
                 /\ nonces[n].present /\ ~nonces[n].consumed
                 /\ nonces'[n].present /\ nonces'[n].consumed
          /\ (nonces[n].present /\ nonces[n].consumed) =>
                 \/ nonces'[n] = nonces[n]
                 \/ ~nonces'[n].present /\ now > nonces[n].expiresAt
          /\ adds'[n] # adds[n] =>
                 ~nonces[n].present /\ consumes'[n] = consumes[n]]_vars

\* a string has been consumed, has expired, was swept, added again and
\* consumed a second time
C5_Witness ==
    \E n \in NonceStrings : consumes[n] = 2 /\ adds[n] = 2

\* the checks the algorithm lists before the Consume step
PassesListedChecks(p) ==
    /\ p.parses /\ ~p.feeBump
    /\ p.numOps >= 2
    /\ p.op1Type = "manage_data" /\ p.op1Name = Domain \o " auth"
    /\ p.op1Value \notin {Nil, ""}
    /\ p.op2Type = "manage_data" /\ p.op2Name = "web_auth_domain"
    /\ p.op2Value = Domain
    /\ p.txSource = ServerKey

PassesEarlyChecks(p) ==
    /\ p.parses /\ ~p.feeBump
    /\ p.numOps >= 2
    /\ p.op1Type = "manage_data" /\ p.op1Name = Domain \o " auth"
    /\ p.op1Value # Nil

C7_TokenConsumedAtMostOnce ==
    /\ \A k \in Tokens : consumedOk[k] <= 1
    /\ \A c \in Callers :
           (Returned(c, "Consume") /\ call[c].late)
               => call[c].result = "interactive-token-invalid"

C7_Witness ==
    \E c \in Callers :
        /\ Returned(c, "Consume")
        /\ call[c].late
        /\ call[c].tok # BogusToken
        /\ consumedOk[call[c].tok] = 1

\* the token of transfer k has been minted
Minted(k) == k \in TransferIds /\ Len(walk[k]) >= 2 /\ walk[k][2] = "interactive"

\* a Consume of token k has succeeded, or has taken the token and is about
\* to return
Taken(k) ==
    \/ consumedOk[k] > 0
    \/ \E c \in Callers :
           call[c].op = "Consume" /\ call[c].tok = k /\ call[c].pc = "tok_find"

C9_CompletedPurgesToken ==
    \A t \in TransferIds :
        (Exists(t) /\ transfers[t].status = "completed" /\ Quiescent(t))
            => tokenToID[t] = NoId

\* the number of deliveries of an event in a hook log
RECURSIVE Count(_, _)
Count(log, event) ==
    IF log = <<>> THEN 0
    ELSE (IF Head(log) = event THEN 1 ELSE 0) + Count(Tail(log), event)

\* the statuses a record is given before it is saved are not transitions
CreatedLen(t) ==
    IF Len(walk[t]) >= 2 /\ walk[t][2] \in {"interactive", "payment_required"}
    THEN 2 ELSE 1

\* C10: each successful status transition delivers status-changed exactly
\* once; the happy-path interactive deposit delivers it exactly 3 times.
C10_StatusChangedOncePerTransition ==
    \A t \in TransferIds :
        (Exists(t) /\ Quiescent(t)) =>
            /\ Count(hookLog[t], HookTransferStatusChanged)
                   = Len(walk[t]) - CreatedLen(t)
            /\ (walk[t] = <<"initiating", "interactive",
                            "pending_user_transfer_start", "pending_stellar",
                            "completed">>)
                   => Count(hookLog[t], HookTransferStatusChanged) = 3

(***************************************************************************)
(* Properties of the transfer manager over a store that may fail.          *)
(***************************************************************************)
MutatingOps ==
    {"Initiate", "CompleteInteractive", "NotifyFundsReceived",
     "NotifyPaymentSent", "NotifyPaymentReceived", "NotifyDisbursementSent",
     "Deny", "Cancel"}

\* C11: a mutating call that has returned store-error has mutated no state:
\* an initiation has left no record in the store and no binding in the token
\* registry, and any other call has left the status walk of its transfer as
\* long as it found it.
C11_StoreErrorMutatesNothing ==
    \A c \in Callers :
        (call[c].pc = "done" /\ call[c].op \in MutatingOps
         /\ call[c].result = "store-error") =>
            IF call[c].op = "Initiate"
            THEN ~Exists(call[c].id) /\ tokenToID[call[c].id] = NoId
            ELSE Len(walk[call[c].id]) = call[c].startLen

\* C12: a mutating call one of whose store calls failed, on the load, the
\* update or the reload for the hooks, does not return success.
C12_StoreFailureIsReported ==
    \A c \in Callers :
        (call[c].pc = "done" /\ call[c].op \in MutatingOps
         /\ call[c].failed) => call[c].result # "ok"

InitiatedHooks == {HookDepositInitiated, HookWithdrawalInitiated}

\* C14: the hooks of a transfer are delivered in the order of the events that
\* caused them: the hook of its initiation is the first one delivered for it,
\* before the hooks of any of its transitions.
C14_HooksInEventOrder ==
    \A t \in TransferIds :
        \A i \in 1..Len(hookLog[t]) :
            (hookLog[t][i] \in InitiatedHooks) <=> (i = 1)

\* C15: every hook of a transfer is delivered by a call that holds the
\* mutex of that transfer while it delivers.
C15_HooksUnderTransferMutex ==
    [][\A t \in TransferIds :
          hookLog'[t] # hookLog[t] =>
              /\ lockHeld[t] # NoId
              /\ call[lockHeld[t]].id = t
              /\ call'[lockHeld[t]] # call[lockHeld[t]]]_vars

\* goroutine c1 cannot take its next step until goroutine c2 releases a lock
WaitsFor(c1, c2) ==
    \/ opPc[c1] = "lock" /\ mutexOf[opId[c1]] = c2
    \/ opPc[c1] = "trigger" /\ ~ReadLockFree /\ c2 \in hookReaders

\* C16: past the lookup in the mutex registry, a mutation never waits for a
\* lock that a mutation on a different transfer holds, whether that one is in
\* a store call or in a hook handler.
C16_NoCrossTransferWait ==
    \A c1, c2 \in Callers :
        (c1 # c2 /\ WaitsFor(c1, c2)) => opId[c1] = opId[c2]

\* the Initiated hook of a transfer of the given kind
InitiatedHook(kind) ==
    IF kind = "deposit" THEN HookDepositInitiated ELSE HookWithdrawalInitiated

\* the status an API-mode initiation steps to
ApiTarget(kind) ==
    IF kind = "deposit" THEN "pending_external" ELSE "payment_required"

\* call c is an InitiateDeposit or InitiateWithdrawal in API mode that has
\* returned its result without an error
ApiInitiated(c) ==
    /\ Returned(c, "Initiate")
    /\ call[c].result = "ok"
    /\ transfers[call[c].id].mode = "api"

\* C17: when an API-mode InitiateDeposit (InitiateWithdrawal) returns without
\* error, the transfer has gone from initiating to pending_external
\* (payment_required) in one step, it is in that status unless a later call
\* has moved it on, and its deposit-initiated (withdrawal-initiated) hook has
\* been delivered exactly once and the other Initiated hook never.
C17_ApiInitiation ==
    \A c \in Callers :
        ApiInitiated(c) =>
            LET t == call[c].id
                kind == transfers[t].kind
            IN /\ Len(walk[t]) >= 2
               /\ walk[t][1] = "initiating"
               /\ walk[t][2] = ApiTarget(kind)
               /\ Len(walk[t]) = 2 => transfers[t].status = ApiTarget(kind)
               /\ \A h \in InitiatedHooks :
                      Count(hookLog[t], h) = IF h = InitiatedHook(kind) THEN 1 ELSE 0

\* an API-mode InitiateDeposit has returned and left its transfer in
\* pending_external
C17_Witness ==
    \E c \in Callers :
        /\ ApiInitiated(c)
        /\ transfers[call[c].id].kind = "deposit"
        /\ transfers[call[c].id].status = "pending_external"
        /\ hookLog[call[c].id] = <<HookTransferStatusChanged, HookDepositInitiated>>

\* the status CompleteInteractive steps a transfer of the given kind to
InteractiveTarget(kind) ==
    IF kind = "deposit" THEN "pending_user_transfer_start" ELSE "pending_external"

\* a CompleteInteractive that has returned without error was on a transfer in
\* interactive mode that was in status interactive, and it moved the transfer
\* to the target of its kind
C18_SuccessFromInteractive ==
    \A c \in Callers :
        (Returned(c, "CompleteInteractive") /\ call[c].result = "ok") =>
            LET t == call[c].id
                n == call[c].startLen
            IN /\ transfers[t].mode = "interactive"
               /\ Len(walk[t]) > n
               /\ walk[t][n] = "interactive"
               /\ walk[t][n + 1] = InteractiveTarget(transfers[t].kind)

\* a CompleteInteractive on a transfer in API mode returns the
\* transition-invalid error at once and writes nothing
C18_ApiModeRefused ==
    \A c \in Callers :
        (/\ call[c].pc = "idle"
         /\ call'[c].pc # "idle"
         /\ call'[c].op = "CompleteInteractive"
         /\ Exists(call'[c].id)
         /\ transfers[call'[c].id].mode = "api")
            => /\ call'[c].pc = "done"
               /\ call'[c].result = "transition-invalid"
               /\ transfers' = transfers
               /\ versions' = versions
               /\ walk' = walk
               /\ hookLog' = hookLog

\* C18: CompleteInteractive succeeds only for a transfer in interactive mode
\* and in status interactive, and then moves it to pending_user_transfer_start
\* (deposit) or pending_external (withdrawal); for a transfer in API mode it
\* fails and leaves the record as it was.
C18_CompleteInteractive ==
    /\ []C18_SuccessFromInteractive
    /\ [][C18_ApiModeRefused]_vars

\* a CompleteInteractive on an interactive deposit has returned without error
\* and the deposit is in pending_user_transfer_start
C18_Witness ==
    \E c \in Callers :
        /\ Returned(c, "CompleteInteractive")
        /\ call[c].result = "ok"
        /\ transfers[call[c].id].kind = "deposit"
        /\ transfers[call[c].id].status = "pending_user_transfer_start"

\* a CompleteInteractive on a transfer in API mode has returned its error
C18_WitnessApi ==
    \E c \in Callers :
        /\ Returned(c, "CompleteInteractive")
        /\ call[c].result = "transition-invalid"
        /\ transfers[call[c].id].mode = "api"

\* the statuses with no outgoing transition
TerminalStatuses == {s \in Statuses : legalTransitions[s] = {}}

\* C19: Deny moves a transfer from any non-terminal status to denied and
\* Cancel moves a transfer from any non-terminal status to cancelled: under
\* the mutex of a transfer that is in no terminal status, neither call has
\* been refused.
C19_DenyCancelFromAnyNonTerminal ==
    \A c \in Callers :
        (/\ call[c].op \in {"Deny", "Cancel"}
         /\ call[c].pc = "unlock"
         /\ Exists(call[c].id)
         /\ transfers[call[c].id].status \notin TerminalStatuses)
            => call[c].result = "ok"

\* completed_at of the record is set exactly if its status is completed
CompletedAtIffCompleted(rec) ==
    (rec.completedAt # Nil) <=> (rec.status = "completed")

ListedPairs ==
    ({"initiating"} \X {"interactive", "pending_user_transfer_start",
                        "pending_external", "failed", "denied"})
    \cup ({"interactive"} \X {"pending_user_transfer_start",
                              "pending_external", "failed", "expired"})
    \cup ({"pending_user_transfer_start"} \X {"pending_external",
                              "pending_stellar", "failed", "cancelled"})
    \cup ({"pending_external"} \X {"pending_stellar", "failed", "cancelled"})
    \cup ({"pending_stellar"} \X {"completed", "failed"})
    \cup ({"payment_required"} \X {"pending_stellar", "failed"})

\* the five terminal statuses
ListedTerminals == {"completed", "failed", "denied", "cancelled", "expired"}

\* C21: ValidateTransition(from, to) succeeds exactly for the pairs listed in
\* the legal-transition table and fails with transition-invalid for every
\* other pair, in particular whenever from is a terminal status or is not one
\* of the eleven statuses.
C21_ValidateTransitionIsTheTable ==
    fsmOut # "" =>
        /\ fsmOut \in {"ok", "transition-invalid"}
        /\ (fsmOut = "ok") <=> (<<fsmFrom, fsmTo>> \in ListedPairs)
        /\ (fsmFrom \in ListedTerminals \/ fsmFrom \notin Statuses)
              => fsmOut = "transition-invalid"

\* a call with a terminal source and a defined target has been refused
C21_Witness ==
    /\ fsmOut = "transition-invalid"
    /\ fsmFrom = "completed"
    /\ fsmTo = "failed"

(***************************************************************************)
(* Properties of the observer.                                             *)
(***************************************************************************)
\* the operation with paging token pt is a payment to the distribution
\* account whose memo is the id of the withdrawal
PaysWithdrawal(pt) ==
    /\ ledger[pt].type = "payment"
    /\ ledger[pt].to = DistributionAccount
    /\ ledger[pt].memo = WithdrawalId

\* C22: once the handler of AutoMatchPayments has returned for a payment to
\* the distribution account whose memo is the id of the withdrawal awaiting
\* its payment, NotifyPaymentReceived has been called for that id with the
\* hash of the payment and the withdrawal is in pending_stellar; for a payment
\* with an empty memo the transfer manager is not called.
C22_AutoMatchNotifies ==
    /\ \A pt \in 1..Len(ledger) :
          (PaysWithdrawal(pt) /\ <<AutoMatchHandler, pt>> \in handled) =>
              /\ \E i \in 1..Len(tmCalls) :
                     tmCalls[i].id = WithdrawalId /\ tmCalls[i].hash = pt
              /\ wStatus = "pending_stellar"
    /\ \A i \in 1..Len(tmCalls) : ledger[tmCalls[i].hash].memo # ""

\* the values passed to the cursor-saver are in ascending order
SavedAscending ==
    \A i, j \in 1..Len(saved) : i <= j => saved[i] <= saved[j]

\* C23: the in-memory cursor never decreases, and each value passed to the
\* cursor-saver is at least the one passed before it, whatever stream
\* failures and reconnects there are.
C23_CursorNeverDecreases ==
    /\ []SavedAscending
    /\ [][cursor' >= cursor]_vars

\* two events have been processed and saved with a reconnect after a backoff
\* wait behind the observer
C23_Witness ==
    /\ Len(saved) = 2
    /\ saved[1] < saved[2]
    /\ cursor = saved[2]
    /\ lastWait > 0

\* every handler whose filters pass the event with paging token pt has
\* returned for it
HandlersHaveRun(pt) ==
    \A h \in 1..NumHandlers :
        PassesFilters(h, convertToPaymentEvent(ledger[pt], pt))
            => <<h, pt>> \in handled

\* C24: the in-memory cursor is advanced to the paging token of an event, and
\* the cursor-saver is called with it, only after all matching handlers have
\* returned for that event.
C24_CursorAfterHandlers ==
    /\ cursor \in 1..Len(ledger) => HandlersHaveRun(cursor)
    /\ \A i \in 1..Len(saved) : HandlersHaveRun(saved[i])

\* the cursor stands at a payment to the distribution account that both
\* handlers have handled and whose paging token has been saved
C24_Witness ==
    /\ cursor \in 1..Len(ledger)
    /\ ledger[cursor].to = DistributionAccount
    /\ {<<AppHandler, cursor>>, <<AutoMatchHandler, cursor>>} \subseteq handled
    /\ Len(saved) > 0
    /\ saved[Len(saved)] = cursor

\* C25: every wait between two connection attempts lasts at most maxBackoff,
\* for every configured initialBackoff and maxBackoff.
C25_WaitAtMostMaxBackoff == lastWait <= obsCfg.maxBackoff

\* the Start of caller c is in its loop
InLoop(c) == start[c].pc \notin {"idle", "returned"}

\* C26: after Stop is called or the context is cancelled on a running
\* observer, Start returns, whether it was in a backoff wait or had a stream
\* open.
C26_StartReturnsAfterStop ==
    \A c \in Callers :
        (InLoop(c) /\ (stopChan = "closed" \/ ctxDone[c])) ~> ~InLoop(c)

\* C27: Stop returns only after the handler call in flight has completed,
\* and after Stop has returned no event is handed to a handler: once Stop
\* has returned no handler call is in progress.
C27_NoHandlerOnceStopReturned ==
    stopChan = "closed" => \A c \in Callers : start[c].pc # "in_handler"

\* at most one Start is in its loop
OneStartInLoop ==
    \A c, d \in Callers : (InLoop(c) /\ InLoop(d)) => c = d

\* a Start called while another Start is in its loop returns the stream-error
\* and changes nothing else
StartWhileRunningRefused ==
    \A c \in Callers :
        (/\ start[c].pc = "idle"
         /\ start'[c].pc # "idle"
         /\ \E d \in Callers : d # c /\ InLoop(d))
            => /\ start'[c].pc = "returned"
               /\ start'[c].result = "stream-error"
               /\ \A d \in Callers : d # c => start'[d] = start[d]
               /\ UNCHANGED <<ledger, obsCfg, cursor, running, stopChan,
                              ctxDone, handled, saved, lastWait, wStatus,
                              tmCalls>>

\* C28: at most one Start of an observer is in its streaming loop at any
\* time; a Start called while another is running returns a stream-error,
\* opens no stream and leaves the running one as it is.
C28_SingleFlight ==
    /\ []OneStartInLoop
    /\ [][StartWhileRunningRefused]_vars

\* a Start has been refused while the Start of another caller has its stream
\* open
C28_Witness ==
    \E c, d \in Callers :
        /\ start[c].pc = "returned"
        /\ start[c].result = "stream-error"
        /\ start[d].pc = "streaming"

\* a handler that returns an error is followed by the next entry of the list,
\* and the cursor-saver, with or without an error, by the return of the
\* callback to the open stream
ErrorsAreLoggedOnly ==
    \A c \in Callers :
        /\ (start[c].pc = "in_handler" /\ start'[c] # start[c])
              => /\ start'[c].pc = "handlers"
                 /\ start'[c].h = start[c].h + 1
                 /\ start'[c].evt = start[c].evt
        /\ (start[c].pc = "save" /\ start'[c] # start[c])
              => /\ start'[c].pc = "streaming"
                 /\ cursor = start[c].evt.cursor

\* when the callback has returned for an event, every matching handler has
\* run for it and the cursor stands at it, whatever errors there were
CallbackCompleted ==
    \A c \in Callers :
        (start[c].pc = "streaming" /\ start[c].evt # NoEvent) =>
            /\ HandlersHaveRun(start[c].evt.cursor)
            /\ cursor = start[c].evt.cursor
            /\ obsCfg.saver =>
                  \E i \in 1..Len(saved) : saved[i] = start[c].evt.cursor

C29_WitnessSaver ==
    \E c \in Callers :
        /\ start[c].pc = "streaming"
        /\ start[c].err
        /\ Len(saved) = 2
        /\ cursor = saved[2]

(***************************************************************************)
(* Properties of the challenge across networks.                            *)
(***************************************************************************)
\* C30: a challenge created and signed under one network identifier is never
\* accepted by the verification of an issuer configured with a different
\* one, whatever signatures the client adds.
C30_NoCrossNetworkAcceptance ==
    (netOut # "" /\ netIn.created # netIn.issuer) => netOut # "ok"

\* a challenge of one network, signed by the client for that network, has
\* been refused by an issuer of the other
C30_Witness ==
    /\ netIn.created # netIn.issuer
    /\ netIn.sigs = <<ServerSignature(netIn.created),
                      [hint |-> ClientKey, by |-> ClientKey,
                       net |-> netIn.created]>>
    /\ netOut = "transaction has unrecognized signatures"

\* the same challenge is accepted by an issuer of the network it was made for
C30_WitnessSameNetwork ==
    /\ netIn.created = netIn.issuer
    /\ netIn.sigs = <<ServerSignature(netIn.created),
                      [hint |-> ClientKey, by |-> ClientKey,
                       net |-> netIn.created]>>
    /\ netOut = "ok"

(***************************************************************************)
(* Duplicate signature hints (verifyChallengeSignatures, the seenHints     *)
(* map).                                                                   *)
(***************************************************************************)
\* two signatures of the envelope carry the same 4-byte hint
DuplicateHints(sigs) ==
    \E i, j \in 1..Len(sigs) : i # j /\ sigs[i].hint = sigs[j].hint

\* the messages verifyChallengeSignatures returns under
\* errors.CHALLENGE_VERIFY_FAILED
VerifyFailedMessages ==
    {"challenge transaction has no signatures",
     "duplicate signature detected",
     "transaction has unrecognized signatures",
     "challenge transaction not signed by server",
     "challenge transaction not signed by client"}

\* C31: an envelope in which two signatures carry the same hint is rejected
\* with CHALLENGE_VERIFY_FAILED, whatever its other signatures, the fetched
\* signers and the threshold are.
C31_DuplicateHintsRejected ==
    (sigOut # "" /\ DuplicateHints(sigIn.sigs)) =>
        sigOut \in VerifyFailedMessages

\* The server and the master key have both signed validly, the weight meets
\* the threshold, and a third valid signature repeats a hint: the envelope
\* is refused for the duplicate alone.
C31_Witness ==
    /\ sigOut = "duplicate signature detected"
    /\ Len(sigIn.sigs) = 3
    /\ Verify(ServerKey, sigIn.sigs[1])
    /\ Verify(ClientKey, sigIn.sigs[2])
    /\ sigIn.sigs[3].hint = sigIn.sigs[2].hint
    /\ \E k \in DOMAIN clientSigners(sigIn) : Verify(k, sigIn.sigs[3])
    /\ clientSigners(sigIn)[ClientKey] >= medThreshold(sigIn)
    /\ clientSigners(sigIn)[ClientKey] > 0

(***************************************************************************)
(* The round trip CreateChallenge, countersign, VerifyChallenge.           *)
(***************************************************************************)
\* the call was made on the countersigned challenge, no earlier call
\* carried its nonce, and less than the challenge TTL has passed
FirstInTime ==
    /\ roundOut # NoRound
    /\ roundOut.signed
    /\ roundOut.first
    /\ roundOut.age < challengeTimeout

Accepted == roundOut.result = "ok" /\ roundOut.subject = roundOut.account

\* C32 as stated: a challenge built for an account, countersigned with the
\* account's key and handed to VerifyChallenge for the first time within
\* the TTL is accepted with the account as the token's subject, whether
\* the fetcher reports the account's signers or reports it not found.
C32_RoundTripAccepted ==
    (FirstInTime /\ roundOut.fetch.fetcher \in {"found", "notfound"}) =>
        Accepted

\* the weight the account's own key carries, and what it has to reach
OwnWeight ==
    IF roundOut.fetch.fetcher = "found"
    THEN roundOut.fetch.signers[roundOut.account] ELSE 1

\* C32 amended: the same round trip is accepted when the account is not
\* the server's signing key and, for a funded account, the weight of the
\* account's own key is positive and reaches the medium threshold.
C32_RoundTripAcceptedAtThreshold ==
    (/\ FirstInTime
     /\ roundOut.account # ServerKey
     /\ OwnWeight > 0
     /\ roundOut.fetch.fetcher = "found" =>
            OwnWeight >= roundOut.fetch.medium) => Accepted

\* a funded account whose key carries the medium threshold is accepted
\* late in the challenge's life
C32_Witness ==
    /\ FirstInTime
    /\ roundOut.age = challengeTimeout - 1
    /\ roundOut.fetch.fetcher = "found"
    /\ roundOut.fetch.medium = 5
    /\ OwnWeight = 5
    /\ Accepted

\* an unfunded account is accepted on the master-key fallback
C32_WitnessUnfunded ==
    /\ FirstInTime
    /\ roundOut.fetch.fetcher = "notfound"
    /\ roundOut.account = ClientKey
    /\ Accepted

(***************************************************************************)
(* Session tokens: what Verify returns for what Issue was given.           *)
(***************************************************************************)
\* Verify has returned for the token as Issue signed it
VerifiedIssued == token.signed /\ jwtOut # NoJwtOut

\* C33: the claims Verify returns for a token before it expires equal the
\* claims handed to Issue in subject, issuer, auth method and memo.
C33_VerifiedEqualsMinted ==
    (VerifiedIssued /\ jwtOut.result = "ok") => jwtOut.claims = minted

\* the instant the token's exp names, in clock ticks
ExpInstant == token.exp * TicksPerSecond

C34_WitnessExpired ==
    /\ VerifiedIssued
    /\ jwtOut.at = ExpInstant
    /\ jwtCfg.expiry = MaxExpiry
    /\ jwtOut.result = "JWT_EXPIRED"

(***************************************************************************)
(* Hook handlers that call back into the transfer manager.                 *)
(***************************************************************************)
\* the handler of c's mutation has called a mutation of the same transfer
\* and that call has not returned
NestedOnSameTransfer(c) ==
    /\ opPc[c] = "handler"
    /\ inner[c] \notin {"idle", "returned"}
    /\ innerId[c] = opId[c]

\* C35: when a hook handler calls a mutation on the transfer whose hook it
\* is handling, the handler returns and the outer call completes.
C35_ReentrantHandlerReturns ==
    \A c \in Callers : NestedOnSameTransfer(c) ~> opPc[c] = "idle"

(***************************************************************************)
(* The master-key fallback.                                                *)
(***************************************************************************)
\* the call verified the signatures against {account: weight 1} with
\* threshold 0
UsedFallback ==
    /\ roundOut # NoRound
    /\ clientSignersOf(roundOut.account, roundOut.fetch) =
           [k \in {roundOut.account} |-> 1]
    /\ medThreshold(roundOut.fetch) = 0

\* C36: the master-key fallback is used only when no fetcher is configured
\* or the fetcher reports the account as not found; when the fetcher fails
\* otherwise, VerifyChallenge fails and accepts nothing.
C36_FallbackOnlyWhenNotFound ==
    /\ (UsedFallback /\ roundOut.fetch.fetcher # "found") =>
           roundOut.fetch.fetcher \in {"none", "notfound"}
    /\ (roundOut # NoRound /\ roundOut.fetch.fetcher = "failed") =>
           roundOut.result # "ok"

(***************************************************************************)
(* Notifications and the kind of the transfer they are called on.          *)
(***************************************************************************)
DepositNotifications == {"NotifyFundsReceived", "NotifyPaymentSent"}
WithdrawalNotifications == {"NotifyPaymentReceived", "NotifyDisbursementSent"}

\* this step is a store write of call c that changes the status of its
\* transfer
WritesStatus(c) ==
    /\ call[c].pc \in {"update", "write"}
    /\ call'[c] # call[c]
    /\ transfers'[call[c].id].status # transfers[call[c].id].status

\* C37: a deposit-flow notification never changes the status of a
\* withdrawal, and a withdrawal-flow notification never changes the status
\* of a deposit.
C37_NotificationsKeepToTheirFlow ==
    [][\A c \in Callers :
          WritesStatus(c) =>
              /\ call[c].op \in DepositNotifications =>
                     transfers[call[c].id].kind = "deposit"
              /\ call[c].op \in WithdrawalNotifications =>
                     transfers[call[c].id].kind = "withdrawal"]_vars

(***************************************************************************)
(* Reconnects and restarts of the observer.                                *)
(***************************************************************************)
\* the last position the stream of Start call c has left behind it: the
\* operation it stands at is still with the callback while the handlers,
\* the cursor update or the cursor-saver run
Passed(c) ==
    IF start[c].pc \in {"handlers", "in_handler", "cursor", "save"}
    THEN start[c].pos - 1 ELSE start[c].pos

\* C38: every payment the ledger emits after Start began is dispatched to
\* the matching handlers, also across failures of the stream: whatever
\* position the streams of a Start call have passed, the handlers have run
\* for every payment between the place where its first stream was opened
\* and there.
C38_NoEventSkipped ==
    \A c \in Callers :
        (opened[c] /\ start[c].pc \notin {"idle", "returned"}) =>
            \A pt \in (began[c] + 1)..Passed(c) :
                convertToPaymentEvent(ledger[pt], pt) # NoEvent =>
                    HandlersHaveRun(pt)

\* C39: Start never returns success without having opened a stream, in
\* particular not when it is called after Stop.
C39_SuccessMeansStreamed ==
    \A c \in Callers :
        (start[c].pc = "returned" /\ start[c].result = "nil") => opened[c]

(***************************************************************************)
(* The interactive page of the reference anchor.                           *)
(***************************************************************************)
\* C40: the token of the interactive URL is still accepted by the form
\* submission after the form page has been displayed with it: a POST with
\* a token whose page has been shown is answered 200, the transfer having
\* left interactive.
C40_TokenAcceptedAfterPageShown ==
    \A c \in Callers :
        (/\ http[c].handler = "POST"
         /\ http[c].stage = "responded"
         /\ http[c].token \in shown) => http[c].response = "200"

====
